---- MODULE Spec2Model ----
(***************************************************************************)
(* Realtime challenge server (WebSocket handlers over a Prisma store).     *)
(*                                                                         *)
(* The server is a single Node.js event loop.  Every inbound frame starts  *)
(* an async handler; a handler runs synchronously up to its next `await`,  *)
(* and other handlers run while it is suspended.  Each awaited store call  *)
(* is therefore modelled as two steps: the store executes the call (Db..), *)
(* and later the handler resumes with the result (the continuation).       *)
(* Lookups of User rows carry no state the handlers depend on except in    *)
(* setOnline and joinOpenChallenge; the User table is never written.       *)
(***************************************************************************)
EXTENDS Integers, Sequences, FiniteSets, TLC

(* ------------------------------ bounds --------------------------------- *)
\* number of inbound frames handled in one run
MaxFrames == 3
\* number of handlers that may be suspended at an await at the same time
MaxInFlight == 2
\* minutes of running time
MaxNow == 7

(* ------------------------------ universe ------------------------------- *)
NULL == "null"
\* rows of the User table, and an id that has no row
Users == {"u1", "u2", "u3"}
NoUser == "u0"
UserIds == Users \cup {NoUser}
\* rows of the Challenge table, and an id that has no row
Challenges == {"c1"}
NoChallenge == "c0"
ChallengeIds == Challenges \cup {NoChallenge}
Sockets == {"s1", "s2"}
Handlers == 1..MaxInFlight

VARIABLES
  challenge,      \* store: Challenge rows, by id
  selections,     \* store: WinnerSelection rows, (challengeId, playerId) -> selectedWinner
  userCoins,      \* store: User.coins
  onlineUsers,    \* StateManager.onlineUsers, in Map insertion order
  startChallengeMap, \* StateManager.startChallengeMap, by challenge id
  winnerSelections,  \* StateManager.winnerSelections
  readyState,     \* per socket: "NEW" (not connected yet), "OPEN", "CLOSED"
  hs,             \* in-flight handlers
  clock,          \* frames received so far; also the value of new Date()
  out,            \* frames handed to ws.send by the last step
  frame,          \* the inbound frame the last step received, if it received one
  startup,        \* position of startServer, and the rows its findMany returned
  now,            \* Date.now() of the StateManager, in minutes since the process started
  sendThrows,     \* the sockets on which ws.send throws
  janitor         \* the last run of the cleanup interval: its time and its count

vars == <<challenge, selections, userCoins, onlineUsers, startChallengeMap,
          winnerSelections, readyState, hs, clock, out, frame, startup, now, sendThrows,
          janitor>>

\* what the handlers of frames never write
process == <<startup, now, sendThrows, janitor>>

store == <<challenge, selections, userCoins>>
caches == <<onlineUsers, startChallengeMap, winnerSelections>>

(* ------------------------------ store rows ----------------------------- *)
NoRow ==
  [exists |-> FALSE, creatorId |-> NULL, inviteeId |-> NULL, status |-> NULL,
   isOpen |-> FALSE, coins |-> 0, winnerId |-> NULL, acceptedAt |-> 0,
   completedAt |-> 0]

\* a Challenge row as the external action layer creates it
NewChallenge(creator, invitee, open, coins) ==
  [exists |-> TRUE, creatorId |-> creator, inviteeId |-> invitee,
   status |-> "PENDING", isOpen |-> open, coins |-> coins, winnerId |-> NULL,
   acceptedAt |-> 0, completedAt |-> 0]

EmptyMap == [p \in UserIds |-> NULL]
NoSelections == [c \in ChallengeIds |-> EmptyMap]

(* ------------------------------ StateManager --------------------------- *)
\* a registry that pushes a new entry on every set
MapSetAppend(m, k, v) == Append(m, [userId |-> k, ws |-> v])

\* Map.prototype.set on the online registry: an existing key keeps its place
MapSet(m, k, v) ==
  IF \E i \in 1..Len(m) : m[i].userId = k
  THEN [i \in 1..Len(m) |-> IF m[i].userId = k THEN [userId |-> k, ws |-> v] ELSE m[i]]
  ELSE Append(m, [userId |-> k, ws |-> v])

setUserOnline(m, userId, ws) == MapSet(m, userId, ws)

isUserOnline(m, userId) == \E i \in 1..Len(m) : m[i].userId = userId

\* the socket bound to userId, or NULL
getUserData(m, userId) ==
  IF isUserOnline(m, userId)
  THEN (CHOOSE e \in {m[i] : i \in 1..Len(m)} : e.userId = userId).ws
  ELSE NULL

\* a lookup that returns the first entry of the registry, whatever its socket
findUserByWebSocketFirst(m, ws) == IF Len(m) > 0 THEN 1 ELSE 0

\* index of the first entry bound to ws, 0 when there is none
findUserByWebSocket(m, ws) ==
  IF \E i \in 1..Len(m) : m[i].ws = ws
  THEN CHOOSE i \in 1..Len(m) : m[i].ws = ws /\ \A j \in 1..(i-1) : m[j].ws # ws
  ELSE 0

\* Map.prototype.delete of the entry at index i
removeUser(m, i) == [j \in 1..(Len(m)-1) |-> IF j < i THEN m[j] ELSE m[j+1]]

\* CONFIG.STALE_CHALLENGE_TIMEOUT_MS and CONFIG.CLEANUP_INTERVAL_MS, in minutes
STALE_CHALLENGE_TIMEOUT == 5
CLEANUP_INTERVAL == 1

\* the start-handshake map: no entry, and no entries
NoStartState ==
  [has |-> FALSE, creatorStarted |-> FALSE, opponentStarted |-> FALSE, timestamp |-> 0]
NoStarts == [c \in ChallengeIds |-> NoStartState]

initializeChallengeState(m, c, t) ==
  [m EXCEPT ![c] = [has |-> TRUE, creatorStarted |-> FALSE, opponentStarted |-> FALSE,
                    timestamp |-> t]]

deleteChallengeState(m, c) == [m EXCEPT ![c] = NoStartState]

\* a sweep that also drops the entries that are exactly timeoutMs old
cleanupStaleChallengesInclusive(m, t, timeoutMs) ==
  [c \in ChallengeIds |->
     IF m[c].has /\ t - m[c].timestamp >= timeoutMs THEN NoStartState ELSE m[c]]

\* the map after the sweep at time t
cleanupStaleChallenges(m, t, timeoutMs) ==
  [c \in ChallengeIds |->
     IF m[c].has /\ t - m[c].timestamp > timeoutMs THEN NoStartState ELSE m[c]]

\* the entries a sweep at time t removes
cleanedCount(m, t, timeoutMs) ==
  Cardinality({c \in ChallengeIds : m[c] # cleanupStaleChallenges(m, t, timeoutMs)[c]})

\* the cleanup interval has not run yet
NoRun == [at |-> 0, cleaned |-> 0]

NoMap == [has |-> FALSE, m |-> EmptyMap]

getWinnerSelections(ws, c) == ws[c]

\* a cache that keeps the first nomination of a player
setWinnerSelectionOnce(ws, c, p, w) ==
  IF ws[c].has /\ ws[c].m[p] # NULL THEN ws
  ELSE [ws EXCEPT ![c] = [has |-> TRUE, m |-> [ws[c].m EXCEPT ![p] = w]]]

setWinnerSelection(ws, c, p, w) ==
  [ws EXCEPT ![c] = [has |-> TRUE, m |-> [ws[c].m EXCEPT ![p] = w]]]

deleteWinnerSelections(ws, c) == [ws EXCEPT ![c] = NoMap]

(* ------------------------------ handlers ------------------------------- *)
NoRef == [kind |-> "none", m |-> EmptyMap]

Idle ==
  [type |-> "idle", pc |-> "idle", ws |-> NULL, cid |-> NULL, uid |-> NULL,
   wid |-> NULL, online |-> FALSE, ch |-> NoRow, upd |-> NoRow, gs |-> NoRef,
   rows |-> NoSelections, ok |-> TRUE, at |-> 0, msg |-> NULL]

Free(h) == hs[h].pc = "idle"

\* an inbound frame as the router sees it: its type, the socket it came from
\* and, for the frames that carry one, the challenge object of the payload
Inbound(type, ws, ch) == [type |-> type, ws |-> ws, ch |-> ch]

NoFrame == Inbound(NULL, NULL, NoRow)

(* ------------------------------ broadcasts ----------------------------- *)
Frame(to, type, cid, ch, sel, msg) ==
  [to |-> to, type |-> type, cid |-> cid, ch |-> ch, sel |-> sel, msg |-> msg,
   all |-> NoSelections]

\* the challenge object of a frame as it came from the store or the payload,
\* with no winnerSelections field
Unenriched == [p \in UserIds |-> "absent"]

\* enrichChallengeWithSelections: the cached nominations of the challenge
enrichChallengeWithSelections(cache, c) ==
  IF cache[c].has THEN cache[c].m ELSE EmptyMap

\* a fan-out that reaches every online socket instead of the two players
broadcastToChallengePlayersAll(reg, rs, creatorId, inviteeId) ==
  {reg[i].ws : i \in {j \in 1..Len(reg) : rs[reg[j].ws] = "OPEN"}}

\* a fan-out without the try block around send: a send to the creator that
\* throws ends the loop before the invitee is served
broadcastToChallengePlayersNoCatch(reg, rs, creatorId, inviteeId) ==
  IF /\ creatorId # NULL /\ isUserOnline(reg, creatorId)
     /\ rs[getUserData(reg, creatorId)] = "OPEN"
     /\ getUserData(reg, creatorId) \in sendThrows
  THEN {getUserData(reg, creatorId)}
  ELSE {getUserData(reg, p) : p \in {q \in {creatorId, inviteeId} :
           q # NULL /\ isUserOnline(reg, q) /\ rs[getUserData(reg, q)] = "OPEN"}}

\* sockets of the given players that are bound and OPEN
broadcastToChallengePlayers(reg, rs, creatorId, inviteeId) ==
  {getUserData(reg, p) : p \in {q \in {creatorId, inviteeId} :
       q # NULL /\ isUserOnline(reg, q) /\ rs[getUserData(reg, q)] = "OPEN"}}

\* the frames of one targeted broadcast
\* (broadcastChallengeUpdate, broadcastGameStateUpdate and the direct calls)
Targeted(reg, rs, creatorId, inviteeId, type, cid, ch, sel, msg) ==
  {Frame(s, type, cid, ch, sel, msg) :
     s \in broadcastToChallengePlayers(reg, rs, creatorId, inviteeId)}

\* every bound socket that is OPEN
forEachUserOpen(reg, rs) ==
  {reg[i].ws : i \in {j \in 1..Len(reg) : rs[reg[j].ws] = "OPEN"}}

broadcastOnlineUsers(reg, rs) ==
  {Frame(s, "onlineUsers", NULL, NoRow, EmptyMap, NULL) : s \in forEachUserOpen(reg, rs)}

(* ------------------------------ initial state -------------------------- *)
\* the coins of the users: u3 cannot afford a wager of 2
InitCoins == [u \in Users |-> IF u = "u3" THEN 1 ELSE 2]

\* loadWinnerSelectionsFromDB: the rows of IN_PROGRESS challenges
loadWinnerSelectionsFromDB(chs, sels) ==
  [c \in ChallengeIds |->
     IF chs[c].exists /\ chs[c].status = "IN_PROGRESS"
        /\ \E p \in UserIds : sels[c][p] # NULL
     THEN [has |-> TRUE, m |-> sels[c]]
     ELSE NoMap]

\* startServer has returned: the cache is warm, the signal handlers are
\* installed, and the listener, open since the WebSocketServer was constructed,
\* is still open
Serving ==
  [pc |-> "serving", rows |-> NoSelections, ok |-> TRUE, signals |-> TRUE,
   listening |-> TRUE, ticker |-> TRUE, connected |-> TRUE, steps |-> <<>>,
   exitCode |-> 0]

\* the module has been evaluated up to the call of startServer, which is
\* suspended at its await: new WebSocketServer({port}) has opened the listener
\* and wss.on("connection") is registered
Loading ==
  [pc |-> "find", rows |-> NoSelections, ok |-> TRUE, signals |-> FALSE,
   listening |-> TRUE, ticker |-> TRUE, connected |-> TRUE, steps |-> <<>>,
   exitCode |-> 0]

\* the server has started on a store that holds the one challenge row and the
\* given WinnerSelection rows for it: nobody is connected, the nomination
\* cache is warm
Started(row, sel) ==
  /\ challenge = [c \in ChallengeIds |-> IF c \in Challenges THEN row ELSE NoRow]
  /\ selections = [c \in ChallengeIds |-> IF c \in Challenges THEN sel ELSE EmptyMap]
  /\ userCoins = InitCoins
  /\ onlineUsers = <<>>
  /\ startChallengeMap = NoStarts
  /\ winnerSelections = loadWinnerSelectionsFromDB(challenge, selections)
  /\ readyState = [s \in Sockets |-> "NEW"]
  /\ hs = [h \in Handlers |-> Idle]
  /\ clock = 0
  /\ out = {}
  /\ frame = NoFrame
  /\ startup = Serving /\ now = 0 /\ sendThrows = {} /\ janitor = NoRun

\* a targeted challenge u1 -> u2 in the given status, and an open one of u1
Targeted12(status) == [NewChallenge("u1", "u2", FALSE, 2) EXCEPT !.status = status]
Open1(coins) == NewChallenge("u1", NULL, TRUE, coins)

\* both players nominated w
Agreed(w) == [p \in UserIds |-> IF p \in {"u1", "u2"} THEN w ELSE NULL]

\* the stores the server may start on: the one challenge open or targeted and
\* PENDING, or targeted and further along; nominations only while IN_PROGRESS
InitStores ==
  {<<Open1(k), EmptyMap>> : k \in {1, 2}}
  \cup {<<Targeted12(st), EmptyMap>> : st \in {"PENDING", "ACCEPTED", "IN_PROGRESS"}}
  \cup {<<Targeted12("IN_PROGRESS"), Agreed("u1")>>}

\* u1 and u2 have connected on s1 and s2 and each has sent setOnline
PlayersOnline ==
  /\ onlineUsers = <<[userId |-> "u1", ws |-> "s1"], [userId |-> "u2", ws |-> "s2"]>>
  /\ readyState = [s \in Sockets |-> "OPEN"]
  /\ hs = [h \in Handlers |-> Idle]

\* the server started on the given store, then the two players came online
StartedOnline(row, sel) ==
  /\ challenge = [c \in ChallengeIds |-> IF c \in Challenges THEN row ELSE NoRow]
  /\ selections = [c \in ChallengeIds |-> IF c \in Challenges THEN sel ELSE EmptyMap]
  /\ userCoins = InitCoins
  /\ startChallengeMap = NoStarts
  /\ winnerSelections = loadWinnerSelectionsFromDB(challenge, selections)
  /\ PlayersOnline
  /\ clock = 0
  /\ out = {}
  /\ frame = NoFrame
  /\ startup = Serving /\ now = 0 /\ sendThrows = {} /\ janitor = NoRun

(* ------------------------------ startup ------------------------------- *)
\* the server is starting on a store that holds the one challenge row and the
\* given WinnerSelection rows: startServer waits for the store, the listener
\* is open, the nomination cache is still empty
Booting(row, sel) ==
  /\ challenge = [c \in ChallengeIds |-> IF c \in Challenges THEN row ELSE NoRow]
  /\ selections = [c \in ChallengeIds |-> IF c \in Challenges THEN sel ELSE EmptyMap]
  /\ userCoins = InitCoins
  /\ onlineUsers = <<>>
  /\ startChallengeMap = NoStarts
  /\ winnerSelections = [c \in ChallengeIds |-> NoMap]
  /\ readyState = [s \in Sockets |-> "NEW"]
  /\ hs = [h \in Handlers |-> Idle]
  /\ clock = 0
  /\ out = {}
  /\ frame = NoFrame
  /\ startup = Loading /\ now = 0 /\ sendThrows = {} /\ janitor = NoRun

Init == \E st \in InitStores : Booting(st[1], st[2])

\* the rows of the IN_PROGRESS challenges, as findMany returns them
ActiveRows(chs, sels) ==
  [c \in ChallengeIds |->
     IF chs[c].exists /\ chs[c].status = "IN_PROGRESS" THEN sels[c] ELSE EmptyMap]

\* state.setWinnerSelection for each of the rows
warmCache(cache, rows) ==
  [c \in ChallengeIds |->
     IF \E p \in UserIds : rows[c][p] # NULL
     THEN [has |-> TRUE,
           m |-> [p \in UserIds |->
                    IF rows[c][p] # NULL THEN rows[c][p] ELSE cache[c].m[p]]]
     ELSE cache[c]]

\* the store answers the findMany of loadWinnerSelectionsFromDB
DbLoadFind ==
  /\ startup.pc = "find"
  /\ startup' = [startup EXCEPT !.pc = "cont", !.ok = TRUE,
                                !.rows = ActiveRows(challenge, selections)]
  /\ out' = {}
  /\ UNCHANGED <<store, caches, readyState, hs, clock, now, sendThrows, janitor>>
  /\ frame' = NoFrame

\* the store rejects it
DbLoadFails ==
  /\ startup.pc = "find"
  /\ startup' = [startup EXCEPT !.pc = "cont", !.ok = FALSE]
  /\ out' = {}
  /\ UNCHANGED <<store, caches, readyState, hs, clock, now, sendThrows, janitor>>
  /\ frame' = NoFrame

\* process.exit(code): the handlers, the sockets, the listener and the caches
\* are gone; the store stays
Exit(code) ==
  /\ startup' = [startup EXCEPT !.pc = "exited", !.listening = FALSE,
                                !.signals = FALSE, !.ticker = FALSE,
                                !.exitCode = code, !.rows = NoSelections]
  /\ hs' = [h \in Handlers |-> Idle]
  /\ readyState' = [s \in Sockets |-> IF readyState[s] = "NEW" THEN "NEW" ELSE "CLOSED"]
  /\ onlineUsers' = <<>>
  /\ startChallengeMap' = NoStarts
  /\ winnerSelections' = [c \in ChallengeIds |-> NoMap]
  /\ sendThrows' = {}

\* a startup that logs the failed load and goes on to serve
LoadContKeepsGoing ==
  /\ startup.pc = "cont"
  /\ winnerSelections' =
       IF startup.ok THEN warmCache(winnerSelections, startup.rows) ELSE winnerSelections
  /\ startup' = Serving
  /\ out' = {}
  /\ UNCHANGED <<store, onlineUsers, startChallengeMap, readyState, hs, clock, now,
                 sendThrows, janitor>>
  /\ frame' = NoFrame

\* loadWinnerSelectionsFromDB and startServer after the findMany: the rows go
\* into the cache and the signal handlers are installed, or the error is
\* thrown on to startServer, which exits with code 1
LoadCont ==
  /\ startup.pc = "cont"
  /\ IF startup.ok
     THEN /\ winnerSelections' = warmCache(winnerSelections, startup.rows)
          /\ startup' = Serving
          /\ UNCHANGED <<onlineUsers, startChallengeMap, readyState, hs, sendThrows>>
     ELSE Exit(1)
  /\ out' = {}
  /\ UNCHANGED <<store, clock, now, janitor>>
  /\ frame' = NoFrame

\* the process is stopped, wherever it is, and started again on the same
\* store: its memory is gone, the module is evaluated anew up to the await of
\* startServer, clients reach it over new sockets
Restart ==
  /\ startup' = Loading
  /\ hs' = [h \in Handlers |-> Idle]
  /\ readyState' = [s \in Sockets |-> "NEW"]
  /\ onlineUsers' = <<>>
  /\ startChallengeMap' = NoStarts
  /\ winnerSelections' = [c \in ChallengeIds |-> NoMap]
  /\ sendThrows' = {}
  /\ out' = {}
  /\ UNCHANGED <<store, clock, now, janitor>>
  /\ frame' = NoFrame

(* ------------------------------ shutdown ------------------------------ *)
\* client.close(1000, "Server shutting down")
CloseFrame(s) ==
  [to |-> s, type |-> "close", code |-> 1000, msg |-> "Server shutting down"]

\* a shutdown that exits without waiting for the store adapter to close
SignalExitsAtOnce ==
  /\ startup.signals /\ startup.pc = "serving"
  /\ startup' = [startup EXCEPT !.pc = "exited", !.listening = FALSE,
                                !.signals = FALSE, !.ticker = FALSE,
                                !.steps = <<"stopAccepting", "stopTicker", "closeSockets">>]
  /\ hs' = [h \in Handlers |-> Idle]
  /\ readyState' = [s \in Sockets |-> IF readyState[s] = "NEW" THEN "NEW" ELSE "CLOSED"]
  /\ onlineUsers' = <<>>
  /\ startChallengeMap' = NoStarts
  /\ winnerSelections' = [c \in ChallengeIds |-> NoMap]
  /\ sendThrows' = {}
  /\ out' = {CloseFrame(s) : s \in {t \in Sockets : readyState[t] = "OPEN"}}
  /\ UNCHANGED <<store, clock, now, janitor>>
  /\ frame' = NoFrame

\* SIGTERM or SIGINT: shutdown up to its await. wss.close() stops the
\* listener, clearInterval stops the cleanup interval, and every client that
\* is OPEN is sent the close frame, which leaves it CLOSING
Signal ==
  /\ startup.signals /\ startup.pc = "serving"
  /\ startup' = [startup EXCEPT !.pc = "disconnect", !.listening = FALSE,
                                !.ticker = FALSE,
                                !.steps = <<"stopAccepting", "stopTicker", "closeSockets">>]
  /\ readyState' = [s \in Sockets |->
                       IF readyState[s] = "OPEN" THEN "CLOSING" ELSE readyState[s]]
  /\ out' = {CloseFrame(s) : s \in {t \in Sockets : readyState[t] = "OPEN"}}
  /\ UNCHANGED <<store, caches, hs, clock, now, sendThrows, janitor>>
  /\ frame' = NoFrame

\* the store adapter runs prisma.$disconnect
DbDisconnect ==
  /\ startup.pc = "disconnect"
  /\ startup' = [startup EXCEPT !.pc = "disconnected", !.connected = FALSE,
                                !.steps = Append(startup.steps, "disconnect")]
  /\ out' = {}
  /\ UNCHANGED <<store, caches, readyState, hs, clock, now, sendThrows, janitor>>
  /\ frame' = NoFrame

\* shutdown after its await: process.exit(0)
ShutdownCont ==
  /\ startup.pc = "disconnected"
  /\ Exit(0)
  /\ out' = {}
  /\ UNCHANGED <<store, clock, now, janitor>>
  /\ frame' = NoFrame

(* ------------------------------ connections ---------------------------- *)
\* wss.on("connection")
Connect(s) ==
  /\ startup.listening
  /\ readyState[s] = "NEW"
  /\ readyState' = [readyState EXCEPT ![s] = "OPEN"]
  /\ out' = {}
  /\ UNCHANGED <<store, caches, hs, clock>>
  /\ frame' = NoFrame
  /\ UNCHANGED process

\* the closing handshake of a socket has begun: its readyState is no longer
\* OPEN, and its close event has not been emitted yet
Closing(s) ==
  /\ readyState[s] = "OPEN"
  /\ readyState' = [readyState EXCEPT ![s] = "CLOSING"]
  /\ out' = {}
  /\ UNCHANGED <<store, caches, hs, clock, process>>
  /\ frame' = NoFrame

\* from now on ws.send throws on the socket, which still reports OPEN
SendBreaks(s) ==
  /\ readyState[s] = "OPEN"
  /\ s \notin sendThrows
  /\ sendThrows' = sendThrows \cup {s}
  /\ out' = {}
  /\ UNCHANGED <<store, caches, readyState, hs, clock, startup, now, janitor>>
  /\ frame' = NoFrame

\* a minute passes
Advance ==
  /\ now < MaxNow
  /\ now' = now + 1
  /\ out' = {}
  /\ UNCHANGED <<store, caches, readyState, hs, clock, startup, sendThrows, janitor>>
  /\ frame' = NoFrame

\* the callback of cleanupInterval, due CLEANUP_INTERVAL after its last run
CleanupTick ==
  /\ startup.ticker
  /\ now - janitor.at >= CLEANUP_INTERVAL
  /\ startChallengeMap' =
       cleanupStaleChallenges(startChallengeMap, now, STALE_CHALLENGE_TIMEOUT)
  /\ janitor' = [at |-> now,
                 cleaned |-> cleanedCount(startChallengeMap, now, STALE_CHALLENGE_TIMEOUT)]
  /\ out' = {}
  /\ UNCHANGED <<store, onlineUsers, winnerSelections, readyState, hs, clock, startup,
                 now, sendThrows>>
  /\ frame' = NoFrame

\* StateManager.initializeChallengeState, which no handler calls
InitializeChallengeState(c) ==
  /\ startup.pc # "exited"
  /\ startChallengeMap' = initializeChallengeState(startChallengeMap, c, now)
  /\ out' = {}
  /\ UNCHANGED <<store, onlineUsers, winnerSelections, readyState, hs, clock, process>>
  /\ frame' = NoFrame

\* ws.on("close")
Close(s) ==
  /\ readyState[s] \in {"OPEN", "CLOSING"}
  /\ readyState' = [readyState EXCEPT ![s] = "CLOSED"]
  /\ LET i == findUserByWebSocket(onlineUsers, s) IN
       IF i # 0
       THEN /\ onlineUsers' = removeUser(onlineUsers, i)
            /\ out' = broadcastOnlineUsers(onlineUsers', readyState')
       ELSE /\ onlineUsers' = onlineUsers
            /\ out' = {}
  /\ UNCHANGED <<store, startChallengeMap, winnerSelections, hs, clock>>
  /\ frame' = NoFrame
  /\ UNCHANGED process

\* a frame arrives on an open socket and its handler takes a free slot
Arrives(s, h) ==
  /\ readyState[s] = "OPEN"
  /\ Free(h)
  /\ \A g \in Handlers : g < h => ~Free(g)
  /\ clock < MaxFrames
  /\ clock' = clock + 1

Done(h) == hs' = [hs EXCEPT ![h] = Idle]

(* ------------------------------ setOnline ------------------------------ *)
\* handleSetOnline up to the await of prisma.user.findUnique
RecvSetOnline(s, h, userId, online) ==
  /\ Arrives(s, h)
  /\ IF userId = NULL
     THEN hs' = hs
     ELSE hs' = [hs EXCEPT ![h] = [Idle EXCEPT !.type = "setOnline", !.pc = "so_find",
                                     !.ws = s, !.uid = userId, !.online = online]]
  /\ out' = {}
  /\ UNCHANGED <<store, caches, readyState>>
  /\ frame' = Inbound("setOnline", s, NoRow)
  /\ UNCHANGED process

\* a handler that binds the socket without looking at the result of the lookup
SetOnlineContAnyUser(h) ==
  /\ hs[h].pc = "so_find"
  /\ IF hs[h].online
     THEN /\ onlineUsers' = setUserOnline(onlineUsers, hs[h].uid, hs[h].ws)
          /\ out' = broadcastOnlineUsers(onlineUsers', readyState)
     ELSE /\ onlineUsers' = onlineUsers
          /\ out' = {}
  /\ Done(h)
  /\ UNCHANGED <<store, startChallengeMap, winnerSelections, readyState, clock>>
  /\ frame' = NoFrame
  /\ UNCHANGED process

\* a handler that takes the user offline when the frame says online = false
SetOnlineContOffline(h) ==
  /\ hs[h].pc = "so_find"
  /\ LET userExists == hs[h].uid \in Users IN
       IF hs[h].online /\ userExists
       THEN /\ onlineUsers' = setUserOnline(onlineUsers, hs[h].uid, hs[h].ws)
            /\ out' = broadcastOnlineUsers(onlineUsers', readyState)
       ELSE IF ~hs[h].online /\ isUserOnline(onlineUsers, hs[h].uid)
       THEN /\ onlineUsers' =
                 removeUser(onlineUsers,
                            CHOOSE i \in 1..Len(onlineUsers) :
                               onlineUsers[i].userId = hs[h].uid)
            /\ out' = broadcastOnlineUsers(onlineUsers', readyState)
       ELSE /\ onlineUsers' = onlineUsers
            /\ out' = {}
  /\ Done(h)
  /\ UNCHANGED <<store, startChallengeMap, winnerSelections, readyState, clock>>
  /\ frame' = NoFrame
  /\ UNCHANGED process

\* handleSetOnline after the lookup
SetOnlineCont(h) ==
  /\ hs[h].pc = "so_find"
  /\ LET userExists == hs[h].uid \in Users IN
       IF hs[h].online /\ userExists
       THEN /\ onlineUsers' = setUserOnline(onlineUsers, hs[h].uid, hs[h].ws)
            /\ out' = broadcastOnlineUsers(onlineUsers', readyState)
       ELSE /\ onlineUsers' = onlineUsers
            /\ out' = {}
  /\ Done(h)
  /\ UNCHANGED <<store, startChallengeMap, winnerSelections, readyState, clock>>
  /\ frame' = NoFrame
  /\ UNCHANGED process

\* the handler h with some of its fields replaced
Start(h, rec) == hs' = [hs EXCEPT ![h] = rec]

\* ws.send of one frame to the originating socket
Reply(h, type, msg) == {Frame(hs[h].ws, type, hs[h].cid, NoRow, EmptyMap, msg)}

(* ------------------------------ selectWinner --------------------------- *)
\* handleSelectWinner up to the await of the transaction
RecvSelectWinner(s, h, challengeId, playerId, winnerId) ==
  /\ Arrives(s, h)
  /\ IF challengeId = NULL \/ playerId = NULL \/ winnerId = NULL
     THEN hs' = hs
     ELSE Start(h, [Idle EXCEPT !.type = "selectWinner", !.pc = "sw_tx", !.ws = s,
                      !.cid = challengeId, !.uid = playerId, !.wid = winnerId])
  /\ out' = {}
  /\ UNCHANGED <<store, caches, readyState>>
  /\ frame' = Inbound("selectWinner", s, NoRow)
  /\ UNCHANGED process

\* a transaction that also records the nominated winner on the challenge row
DbSelectWinnerTxOnRow(h) ==
  /\ hs[h].pc = "sw_tx"
  /\ challenge[hs[h].cid].exists
  /\ selections' = [selections EXCEPT ![hs[h].cid][hs[h].uid] = hs[h].wid]
  /\ challenge' = [challenge EXCEPT ![hs[h].cid].winnerId = hs[h].wid]
  /\ Start(h, [hs[h] EXCEPT !.pc = "sw_cont", !.ok = TRUE, !.ch = challenge[hs[h].cid]])
  /\ out' = {}
  /\ UNCHANGED <<userCoins, caches, readyState, clock>>
  /\ frame' = NoFrame
  /\ UNCHANGED process

\* the store runs the transaction: upsert of the row, then read of the challenge.
\* The row references its Challenge, so the upsert fails when there is none.
DbSelectWinnerTx(h) ==
  /\ hs[h].pc = "sw_tx"
  /\ challenge[hs[h].cid].exists
  /\ selections' = [selections EXCEPT ![hs[h].cid][hs[h].uid] = hs[h].wid]
  /\ Start(h, [hs[h] EXCEPT !.pc = "sw_cont", !.ok = TRUE, !.ch = challenge[hs[h].cid]])
  /\ out' = {}
  /\ UNCHANGED <<challenge, userCoins, caches, readyState, clock>>
  /\ frame' = NoFrame
  /\ UNCHANGED process

\* the transaction is rejected by the store and leaves no row
DbSelectWinnerTxFails(h) ==
  /\ hs[h].pc = "sw_tx"
  /\ Start(h, [hs[h] EXCEPT !.pc = "sw_cont", !.ok = FALSE])
  /\ out' = {}
  /\ UNCHANGED <<store, caches, readyState, clock>>
  /\ frame' = NoFrame
  /\ UNCHANGED process

\* a handler that writes the cache and broadcasts whatever the store answered
SelectWinnerContOptimistic(h) ==
  /\ hs[h].pc = "sw_cont"
  /\ winnerSelections' =
       setWinnerSelection(winnerSelections, hs[h].cid, hs[h].uid, hs[h].wid)
  /\ out' = IF hs[h].ok
            THEN Targeted(onlineUsers, readyState, hs[h].ch.creatorId,
                          hs[h].ch.inviteeId, "challengeUpdate", hs[h].cid, hs[h].ch,
                          enrichChallengeWithSelections(winnerSelections', hs[h].cid),
                          NULL)
            ELSE Reply(h, "error", "Failed to save winner selection")
  /\ Done(h)
  /\ UNCHANGED <<store, onlineUsers, startChallengeMap, readyState, clock>>
  /\ frame' = NoFrame
  /\ UNCHANGED process

\* handleSelectWinner after the transaction
SelectWinnerCont(h) ==
  /\ hs[h].pc = "sw_cont"
  /\ IF ~hs[h].ok
     THEN /\ out' = Reply(h, "error", "Failed to save winner selection")
          /\ winnerSelections' = winnerSelections
     ELSE IF ~hs[h].ch.exists
     THEN /\ out' = Reply(h, "error", "Challenge not found")
                      \cup IF hs[h].ws \in sendThrows
                           THEN Reply(h, "error", "Failed to save winner selection")
                           ELSE {}
          /\ winnerSelections' = winnerSelections
     ELSE /\ winnerSelections' =
               setWinnerSelection(winnerSelections, hs[h].cid, hs[h].uid, hs[h].wid)
          /\ out' = Targeted(onlineUsers, readyState, hs[h].ch.creatorId,
                             hs[h].ch.inviteeId, "challengeUpdate", hs[h].cid, hs[h].ch,
                             enrichChallengeWithSelections(winnerSelections', hs[h].cid),
                             NULL)
  /\ Done(h)
  /\ UNCHANGED <<store, onlineUsers, startChallengeMap, readyState, clock>>
  /\ frame' = NoFrame
  /\ UNCHANGED process

(* ------------------------------ getWinnerSelections -------------------- *)
\* handleGetWinnerSelections up to the await of findMany
RecvGetWinnerSelections(s, h) ==
  /\ Arrives(s, h)
  /\ Start(h, [Idle EXCEPT !.type = "getWinnerSelections", !.pc = "gw_find", !.ws = s])
  /\ out' = {}
  /\ UNCHANGED <<store, caches, readyState>>
  /\ frame' = Inbound("getWinnerSelections", s, NoRow)
  /\ UNCHANGED process

\* the store answers with the rows of the IN_PROGRESS challenges
DbGetWinnerSelections(h) ==
  /\ hs[h].pc = "gw_find"
  /\ Start(h, [hs[h] EXCEPT !.pc = "gw_cont", !.ok = TRUE,
                 !.rows = [c \in ChallengeIds |->
                            IF challenge[c].exists /\ challenge[c].status = "IN_PROGRESS"
                            THEN selections[c] ELSE EmptyMap]])
  /\ out' = {}
  /\ UNCHANGED <<store, caches, readyState, clock>>
  /\ frame' = NoFrame
  /\ UNCHANGED process

DbGetWinnerSelectionsFails(h) ==
  /\ hs[h].pc = "gw_find"
  /\ Start(h, [hs[h] EXCEPT !.pc = "gw_cont", !.ok = FALSE])
  /\ out' = {}
  /\ UNCHANGED <<store, caches, readyState, clock>>
  /\ frame' = NoFrame
  /\ UNCHANGED process

\* the reply of getWinnerSelections: challengeId -> playerId -> winner
AllSelections(h, all) ==
  {[to |-> hs[h].ws, type |-> "allWinnerSelections", cid |-> NULL, ch |-> NoRow,
    sel |-> EmptyMap, msg |-> NULL, all |-> all]}

\* handleGetWinnerSelections after findMany: copies the rows into the cache and
\* replies; on a store failure, or when the reply throws, it replies from the
\* cache
GetWinnerSelectionsCont(h) ==
  /\ hs[h].pc = "gw_cont"
  /\ IF hs[h].ok
     THEN /\ winnerSelections' =
               [c \in ChallengeIds |->
                  IF \E p \in UserIds : hs[h].rows[c][p] # NULL
                  THEN [has |-> TRUE,
                        m |-> [p \in UserIds |->
                                 IF hs[h].rows[c][p] # NULL THEN hs[h].rows[c][p]
                                 ELSE winnerSelections[c].m[p]]]
                  ELSE winnerSelections[c]]
          /\ out' = AllSelections(h, hs[h].rows)
                      \cup IF hs[h].ws \in sendThrows
                           THEN AllSelections(h, [c \in ChallengeIds |->
                                                    winnerSelections'[c].m])
                           ELSE {}
     ELSE /\ winnerSelections' = winnerSelections
          /\ out' = AllSelections(h, [c \in ChallengeIds |-> winnerSelections[c].m])
  /\ Done(h)
  /\ UNCHANGED <<store, onlineUsers, startChallengeMap, readyState, clock>>
  /\ frame' = NoFrame
  /\ UNCHANGED process

(* ------------------------------ broadcastChallenge --------------------- *)
\* the frames of broadcastNewChallenge and of broadcastOpenChallenge
broadcastNewChallenge(c, ch) ==
  Targeted(onlineUsers, readyState, ch.creatorId, ch.inviteeId, "challengeCreated",
           c, ch, Unenriched, NULL)

broadcastOpenChallenge(c, ch) ==
  {Frame(s, "openChallengeCreated", c, ch, Unenriched, NULL) :
     s \in forEachUserOpen(onlineUsers, readyState)}

\* handleBroadcastChallenge: announces the challenge object of the payload,
\* which the sender says is already in the store; it has no await
RecvBroadcastChallenge(s, h, challengeId, ch) ==
  /\ Arrives(s, h)
  /\ out' = IF ~ch.exists \/ challengeId = NULL THEN {}
            ELSE IF ch.isOpen THEN broadcastOpenChallenge(challengeId, ch)
            ELSE broadcastNewChallenge(challengeId, ch)
  /\ UNCHANGED <<store, caches, readyState, hs>>
  /\ frame' = Inbound("broadcastChallenge", s, ch)
  /\ UNCHANGED process

(* ------------------------------ other frame types ---------------------- *)
\* the catch block of the router: one error frame to the originating socket
RouterError(s) == {Frame(s, "error", NULL, NoRow, EmptyMap, "Failed to process message")}

\* the type recorded for a frame whose text JSON.parse rejects
Unparsable == "unparsable"

\* a frame that is not JSON: JSON.parse throws inside the try block of the
\* router and the catch block answers
RecvUnparsable(s, h) ==
  /\ Arrives(s, h)
  /\ out' = RouterError(s)
  /\ UNCHANGED <<store, caches, readyState, hs>>
  /\ frame' = Inbound(Unparsable, s, NoRow)
  /\ UNCHANGED process

\* the frame types the router has no case for; createChallenge is one of them
UnknownTypes == {"createChallenge", "ping"}

\* a default case that answers the sender with an error frame
RecvUnknownTypeReplies(s, h, type, ch) ==
  /\ Arrives(s, h)
  /\ out' = RouterError(s)
  /\ UNCHANGED <<store, caches, readyState, hs>>
  /\ frame' = Inbound(type, s, ch)
  /\ UNCHANGED process

\* the default case of the router: the frame is logged and dropped
RecvUnknownType(s, h, type, ch) ==
  /\ Arrives(s, h)
  /\ out' = {}
  /\ UNCHANGED <<store, caches, readyState, hs>>
  /\ frame' = Inbound(type, s, ch)
  /\ UNCHANGED process

(* ------------------------------ acceptChallenge ------------------------ *)
\* prisma.challenge.update: the patched row, the row must exist
UpdateChallenge(c, row) == challenge' = [challenge EXCEPT ![c] = row]

\* the frames of broadcastChallengeUpdate
broadcastChallengeUpdate(upd, c) ==
  Targeted(onlineUsers, readyState, upd.creatorId, upd.inviteeId, "challengeAccepted",
           c, upd, enrichChallengeWithSelections(winnerSelections, c), NULL)

\* handleAcceptChallenge up to the await of the update
RecvAcceptChallenge(s, h, challengeId) ==
  /\ Arrives(s, h)
  /\ IF challengeId = NULL
     THEN hs' = hs
     ELSE Start(h, [Idle EXCEPT !.type = "acceptChallenge", !.pc = "ac_upd", !.ws = s,
                      !.cid = challengeId, !.at = clock'])
  /\ out' = {}
  /\ UNCHANGED <<store, caches, readyState>>
  /\ frame' = Inbound("acceptChallenge", s, NoRow)
  /\ UNCHANGED process

\* the store runs the update of handleAcceptChallenge
DbAcceptUpdate(h) ==
  /\ hs[h].pc = "ac_upd"
  /\ challenge[hs[h].cid].exists
  /\ LET row == [challenge[hs[h].cid] EXCEPT !.status = "ACCEPTED", !.acceptedAt = hs[h].at] IN
       /\ UpdateChallenge(hs[h].cid, row)
       /\ Start(h, [hs[h] EXCEPT !.pc = "ac_users", !.upd = row])
  /\ out' = {}
  /\ UNCHANGED <<selections, userCoins, caches, readyState, clock>>
  /\ frame' = NoFrame
  /\ UNCHANGED process

\* the update throws (no such row); the catch block only logs
DbAcceptUpdateFails(h) ==
  /\ hs[h].pc = "ac_upd"
  /\ ~challenge[hs[h].cid].exists
  /\ Done(h)
  /\ out' = {}
  /\ UNCHANGED <<store, caches, readyState, clock>>
  /\ frame' = NoFrame
  /\ UNCHANGED process

\* handleAcceptChallenge after the two user lookups
AcceptUsersCont(h) ==
  /\ hs[h].pc = "ac_users"
  /\ out' = broadcastChallengeUpdate(hs[h].upd, hs[h].cid)
  /\ Done(h)
  /\ UNCHANGED <<store, caches, readyState, clock>>
  /\ frame' = NoFrame
  /\ UNCHANGED process

(* ------------------------------ joinOpenChallenge ---------------------- *)
\* sendError of handleJoinOpenChallenge
JoinFailed(h, msg) == Reply(h, "joinOpenChallengeFailed", msg)

\* handleJoinOpenChallenge up to the await of findUnique
RecvJoinOpenChallenge(s, h, challengeId, userId) ==
  /\ Arrives(s, h)
  /\ IF challengeId = NULL \/ userId = NULL
     THEN hs' = hs
     ELSE Start(h, [Idle EXCEPT !.type = "joinOpenChallenge", !.pc = "jo_find", !.ws = s,
                      !.cid = challengeId, !.uid = userId])
  /\ out' = {}
  /\ UNCHANGED <<store, caches, readyState>>
  /\ frame' = Inbound("joinOpenChallenge", s, NoRow)
  /\ UNCHANGED process

\* the store answers the read of the challenge
DbJoinFind(h) ==
  /\ hs[h].pc = "jo_find"
  /\ Start(h, [hs[h] EXCEPT !.pc = "jo_check", !.ch = challenge[hs[h].cid]])
  /\ out' = {}
  /\ UNCHANGED <<store, caches, readyState, clock>>
  /\ frame' = NoFrame
  /\ UNCHANGED process

\* the checks on the challenge that was read, up to the next await
JoinCheckCont(h) ==
  /\ hs[h].pc = "jo_check"
  /\ LET ch == hs[h].ch
         userId == hs[h].uid IN
       IF ~ch.exists
       THEN Done(h) /\ out' = JoinFailed(h, "Challenge not found")
       ELSE IF ch.creatorId = userId
       THEN Done(h) /\ out' = JoinFailed(h, "You cannot join your own challenge")
       ELSE IF ch.inviteeId = userId
       THEN Start(h, [hs[h] EXCEPT !.pc = "jo_upd_inv", !.at = clock]) /\ out' = {}
       ELSE IF ch.inviteeId # NULL
       THEN Done(h) /\ out' = JoinFailed(h, "Challenge already has a participant")
       ELSE IF ch.status # "PENDING"
       THEN Done(h) /\ out' = JoinFailed(h, "Challenge is not available for joining")
       ELSE Start(h, [hs[h] EXCEPT !.pc = "jo_user"]) /\ out' = {}
  /\ UNCHANGED <<store, caches, readyState, clock>>
  /\ frame' = NoFrame
  /\ UNCHANGED process

\* the checks on the user that was looked up, up to the await of the update
JoinUserCont(h) ==
  /\ hs[h].pc = "jo_user"
  /\ LET userId == hs[h].uid IN
       IF userId \notin Users
       THEN Done(h) /\ out' = JoinFailed(h, "User not found")
       ELSE IF userCoins[userId] < hs[h].ch.coins
       THEN Done(h) /\ out' = JoinFailed(h, "Insufficient coins")
       ELSE Start(h, [hs[h] EXCEPT !.pc = "jo_upd", !.at = clock]) /\ out' = {}
  /\ UNCHANGED <<store, caches, readyState, clock>>
  /\ frame' = NoFrame
  /\ UNCHANGED process

\* the store runs the update issued for the user who already is the invitee
DbJoinUpdateInvitee(h) ==
  /\ hs[h].pc = "jo_upd_inv"
  /\ LET row == [challenge[hs[h].cid] EXCEPT !.status = "ACCEPTED", !.acceptedAt = hs[h].at] IN
       /\ UpdateChallenge(hs[h].cid, row)
       /\ Start(h, [hs[h] EXCEPT !.pc = "jo_users", !.upd = row])
  /\ out' = {}
  /\ UNCHANGED <<selections, userCoins, caches, readyState, clock>>
  /\ frame' = NoFrame
  /\ UNCHANGED process

\* the store runs the update that makes the joiner the invitee
DbJoinUpdate(h) ==
  /\ hs[h].pc = "jo_upd"
  /\ LET row == [challenge[hs[h].cid] EXCEPT !.inviteeId = hs[h].uid,
                    !.status = "ACCEPTED", !.acceptedAt = hs[h].at] IN
       /\ UpdateChallenge(hs[h].cid, row)
       /\ Start(h, [hs[h] EXCEPT !.pc = "jo_users", !.upd = row])
  /\ out' = {}
  /\ UNCHANGED <<selections, userCoins, caches, readyState, clock>>
  /\ frame' = NoFrame
  /\ UNCHANGED process

\* handleJoinOpenChallenge after the two user lookups
JoinUsersCont(h) ==
  /\ hs[h].pc = "jo_users"
  /\ out' = broadcastChallengeUpdate(hs[h].upd, hs[h].cid)
  /\ Done(h)
  /\ UNCHANGED <<store, caches, readyState, clock>>
  /\ frame' = NoFrame
  /\ UNCHANGED process

(* ------------------------------ startChallenge ------------------------- *)
\* sendError of handleStartChallenge
StartFailed(h, msg) == Reply(h, "failedToStartChallenge", msg)

\* handleStartChallenge up to the await of findUnique
RecvStartChallenge(s, h, challengeId, userId) ==
  /\ Arrives(s, h)
  /\ IF challengeId = NULL \/ userId = NULL
     THEN hs' = hs
     ELSE Start(h, [Idle EXCEPT !.type = "startChallenge", !.pc = "st_find", !.ws = s,
                      !.cid = challengeId, !.uid = userId])
  /\ out' = {}
  /\ UNCHANGED <<store, caches, readyState>>
  /\ frame' = Inbound("startChallenge", s, NoRow)
  /\ UNCHANGED process

\* the store answers the read of the challenge
DbStartFind(h) ==
  /\ hs[h].pc = "st_find"
  /\ Start(h, [hs[h] EXCEPT !.pc = "st_check", !.ch = challenge[hs[h].cid]])
  /\ out' = {}
  /\ UNCHANGED <<store, caches, readyState, clock>>
  /\ frame' = NoFrame
  /\ UNCHANGED process

\* the checks of a start that does not look at the online registry
StartCheckContNoPresence(h) ==
  /\ hs[h].pc = "st_check"
  /\ LET ch == hs[h].ch IN
       IF ~ch.exists
       THEN Done(h) /\ out' = StartFailed(h, "Challenge not found")
       ELSE IF hs[h].uid # ch.inviteeId
       THEN Done(h) /\ out' = StartFailed(h, "Only the invited player can start the challenge")
       ELSE IF ch.status = "ACCEPTED"
       THEN Start(h, [hs[h] EXCEPT !.pc = "st_upd"]) /\ out' = {}
       ELSE Done(h) /\ out' = StartFailed(h, "Challenge cannot be started from current status")
  /\ UNCHANGED <<store, caches, readyState, clock>>
  /\ frame' = NoFrame
  /\ UNCHANGED process

\* the checks of handleStartChallenge, up to the await of the update
StartCheckCont(h) ==
  /\ hs[h].pc = "st_check"
  /\ LET ch == hs[h].ch IN
       IF ~ch.exists
       THEN Done(h) /\ out' = StartFailed(h, "Challenge not found")
       ELSE IF hs[h].uid # ch.inviteeId
       THEN Done(h) /\ out' = StartFailed(h, "Only the invited player can start the challenge")
       ELSE IF ~(isUserOnline(onlineUsers, ch.creatorId)
                 /\ isUserOnline(onlineUsers, ch.inviteeId))
       THEN Done(h) /\ out' = StartFailed(h, "Opponent is Offline")
       ELSE IF ch.status = "ACCEPTED"
       THEN Start(h, [hs[h] EXCEPT !.pc = "st_upd"]) /\ out' = {}
       ELSE Done(h) /\ out' = StartFailed(h, "Challenge cannot be started from current status")
  /\ UNCHANGED <<store, caches, readyState, clock>>
  /\ frame' = NoFrame
  /\ UNCHANGED process

\* the store runs the update of handleStartChallenge
DbStartUpdate(h) ==
  /\ hs[h].pc = "st_upd"
  /\ LET row == [challenge[hs[h].cid] EXCEPT !.status = "IN_PROGRESS"] IN
       /\ UpdateChallenge(hs[h].cid, row)
       /\ Start(h, [hs[h] EXCEPT !.pc = "st_users", !.upd = row])
  /\ out' = {}
  /\ UNCHANGED <<selections, userCoins, caches, readyState, clock>>
  /\ frame' = NoFrame
  /\ UNCHANGED process

\* handleStartChallenge after the two user lookups
StartUsersCont(h) ==
  /\ hs[h].pc = "st_users"
  /\ out' = Targeted(onlineUsers, readyState, hs[h].upd.creatorId, hs[h].upd.inviteeId,
                     "challengeStartedBy", hs[h].cid, hs[h].upd,
                     enrichChallengeWithSelections(winnerSelections, hs[h].cid), NULL)
  /\ startChallengeMap' = deleteChallengeState(startChallengeMap, hs[h].cid)
  /\ Done(h)
  /\ UNCHANGED <<store, onlineUsers, winnerSelections, readyState, clock>>
  /\ frame' = NoFrame
  /\ UNCHANGED process

(* ------------------------------ claimVictory --------------------------- *)
\* the Map that a handler's gameSelections refers to: the cached Map itself
\* while it is still in the cache, else the Map as it was when it was dropped
Deref(h) == IF hs[h].gs.kind = "live" THEN winnerSelections[hs[h].cid].m ELSE hs[h].gs.m

\* handleClaimVictory up to its first await
RecvClaimVictory(s, h, challengeId) ==
  /\ Arrives(s, h)
  /\ IF challengeId = NULL
     THEN hs' = hs
     ELSE IF ~getWinnerSelections(winnerSelections, challengeId).has
     THEN Start(h, [Idle EXCEPT !.type = "claimVictory", !.pc = "cv_err_find", !.ws = s,
                      !.cid = challengeId, !.msg = "No winner selections found"])
     ELSE Start(h, [Idle EXCEPT !.type = "claimVictory", !.pc = "cv_find", !.ws = s,
                      !.cid = challengeId, !.gs = [kind |-> "live", m |-> EmptyMap]])
  /\ out' = {}
  /\ UNCHANGED <<store, caches, readyState>>
  /\ frame' = Inbound("claimVictory", s, NoRow)
  /\ UNCHANGED process

\* the store answers the read of the challenge
DbClaimFind(h) ==
  /\ hs[h].pc = "cv_find"
  /\ Start(h, [hs[h] EXCEPT !.pc = "cv_check", !.ch = challenge[hs[h].cid]])
  /\ out' = {}
  /\ UNCHANGED <<store, caches, readyState, clock>>
  /\ frame' = NoFrame
  /\ UNCHANGED process

\* a gate that does not compare the two nominations
ClaimCheckContNoCompare(h) ==
  /\ hs[h].pc = "cv_check"
  /\ LET ch == hs[h].ch
         creatorSelection == Deref(h)[ch.creatorId]
         inviteeSelection == IF ch.inviteeId = NULL THEN NULL ELSE Deref(h)[ch.inviteeId] IN
       IF ~ch.exists
       THEN Done(h) /\ out' = Reply(h, "claimVictoryFailed", "Challenge not found.")
       ELSE IF creatorSelection = NULL \/ inviteeSelection = NULL
       THEN /\ Start(h, [hs[h] EXCEPT !.pc = "cv_err_find",
                           !.msg = "Both players must select a winner"])
            /\ out' = {}
       ELSE /\ Start(h, [hs[h] EXCEPT !.pc = "cv_tx", !.wid = creatorSelection,
                           !.at = clock])
            /\ out' = {}
  /\ UNCHANGED <<store, caches, readyState, clock>>
  /\ frame' = NoFrame
  /\ UNCHANGED process

\* the consensus gate, up to the next await
ClaimCheckCont(h) ==
  /\ hs[h].pc = "cv_check"
  /\ LET ch == hs[h].ch
         creatorSelection == Deref(h)[ch.creatorId]
         inviteeSelection == IF ch.inviteeId = NULL THEN NULL ELSE Deref(h)[ch.inviteeId] IN
       IF ~ch.exists
       THEN Done(h) /\ out' = Reply(h, "claimVictoryFailed", "Challenge not found.")
       ELSE IF creatorSelection = NULL \/ inviteeSelection = NULL
       THEN /\ Start(h, [hs[h] EXCEPT !.pc = "cv_err_find",
                           !.msg = "Both players must select a winner"])
            /\ out' = {}
       ELSE IF creatorSelection # inviteeSelection
       THEN /\ Start(h, [hs[h] EXCEPT !.pc = "cv_err_find",
                           !.msg = "Players disagree on the winner"])
            /\ out' = {}
       ELSE /\ Start(h, [hs[h] EXCEPT !.pc = "cv_tx", !.wid = creatorSelection,
                           !.at = clock])
            /\ out' = {}
  /\ UNCHANGED <<store, caches, readyState, clock>>
  /\ frame' = NoFrame
  /\ UNCHANGED process

\* sendErrorToBoth: the store answers the read of the two player ids
DbClaimErrFind(h) ==
  /\ hs[h].pc = "cv_err_find"
  /\ Start(h, [hs[h] EXCEPT !.pc = "cv_err_cont", !.upd = challenge[hs[h].cid]])
  /\ out' = {}
  /\ UNCHANGED <<store, caches, readyState, clock>>
  /\ frame' = NoFrame
  /\ UNCHANGED process

\* an error that goes back to the claimant only
ClaimErrContToSender(h) ==
  /\ hs[h].pc = "cv_err_cont"
  /\ out' = IF hs[h].upd.exists
            THEN {Frame(hs[h].ws, "claimVictoryFailed", hs[h].cid, NoRow, EmptyMap, hs[h].msg)}
            ELSE {}
  /\ Done(h)
  /\ UNCHANGED <<store, caches, readyState, clock>>
  /\ frame' = NoFrame
  /\ UNCHANGED process

\* sendErrorToBoth after the read
ClaimErrCont(h) ==
  /\ hs[h].pc = "cv_err_cont"
  /\ out' = IF hs[h].upd.exists
            THEN Targeted(onlineUsers, readyState, hs[h].upd.creatorId,
                          hs[h].upd.inviteeId, "claimVictoryFailed", hs[h].cid, NoRow,
                          EmptyMap, hs[h].msg)
            ELSE {}
  /\ Done(h)
  /\ UNCHANGED <<store, caches, readyState, clock>>
  /\ frame' = NoFrame
  /\ UNCHANGED process

\* a completing write that leaves the nominations of the challenge in the store
DbClaimTxKeepsRows(h) ==
  /\ hs[h].pc = "cv_tx"
  /\ challenge[hs[h].cid].exists
  /\ LET row == [challenge[hs[h].cid] EXCEPT !.status = "COMPLETED",
                    !.completedAt = hs[h].at, !.winnerId = hs[h].wid] IN
       /\ UpdateChallenge(hs[h].cid, row)
       /\ Start(h, [hs[h] EXCEPT !.pc = "cv_users", !.upd = row])
  /\ out' = {}
  /\ UNCHANGED <<selections, userCoins, caches, readyState, clock>>
  /\ frame' = NoFrame
  /\ UNCHANGED process

\* the store runs the completing transaction: update of the row, deleteMany of
\* the challenge's selections
DbClaimTx(h) ==
  /\ hs[h].pc = "cv_tx"
  /\ challenge[hs[h].cid].exists
  /\ LET row == [challenge[hs[h].cid] EXCEPT !.status = "COMPLETED",
                    !.completedAt = hs[h].at, !.winnerId = hs[h].wid] IN
       /\ UpdateChallenge(hs[h].cid, row)
       /\ Start(h, [hs[h] EXCEPT !.pc = "cv_users", !.upd = row])
  /\ selections' = [selections EXCEPT ![hs[h].cid] = EmptyMap]
  /\ out' = {}
  /\ UNCHANGED <<userCoins, caches, readyState, clock>>
  /\ frame' = NoFrame
  /\ UNCHANGED process

\* the transaction is rejected by the store and changes nothing
DbClaimTxFails(h) ==
  /\ hs[h].pc = "cv_tx"
  /\ Start(h, [hs[h] EXCEPT !.pc = "cv_fail"])
  /\ out' = {}
  /\ UNCHANGED <<store, caches, readyState, clock>>
  /\ frame' = NoFrame
  /\ UNCHANGED process

\* a catch block that also drops the cached nominations of the challenge
ClaimFailContCleansUp(h) ==
  /\ hs[h].pc = "cv_fail"
  /\ out' = Reply(h, "claimVictoryFailed", "Failed to update challenge status.")
  /\ winnerSelections' = deleteWinnerSelections(winnerSelections, hs[h].cid)
  /\ Done(h)
  /\ UNCHANGED <<store, onlineUsers, startChallengeMap, readyState, clock>>
  /\ frame' = NoFrame
  /\ UNCHANGED process

\* the catch block of handleClaimVictory
ClaimFailCont(h) ==
  /\ hs[h].pc = "cv_fail"
  /\ out' = Reply(h, "claimVictoryFailed", "Failed to update challenge status.")
  /\ Done(h)
  /\ UNCHANGED <<store, caches, readyState, clock>>
  /\ frame' = NoFrame
  /\ UNCHANGED process

\* handleClaimVictory after the two user lookups: drops the cached Map (other
\* handlers that hold it keep the dropped Map) and broadcasts the completion
ClaimUsersCont(h) ==
  /\ hs[h].pc = "cv_users"
  /\ winnerSelections' = deleteWinnerSelections(winnerSelections, hs[h].cid)
  /\ hs' = [g \in Handlers |->
              IF g = h THEN Idle
              ELSE IF hs[g].gs.kind = "live" /\ hs[g].cid = hs[h].cid
              THEN [hs[g] EXCEPT !.gs = [kind |-> "detached",
                                         m |-> winnerSelections[hs[h].cid].m]]
              ELSE hs[g]]
  /\ out' = Targeted(onlineUsers, readyState, hs[h].ch.creatorId, hs[h].ch.inviteeId,
                     "challengeCompleted", hs[h].cid, hs[h].upd, Unenriched, hs[h].wid)
  /\ UNCHANGED <<store, onlineUsers, startChallengeMap, readyState, clock>>
  /\ frame' = NoFrame
  /\ UNCHANGED process

(* ------------------------------ specifications ------------------------- *)
\* the challenge objects a createChallenge or broadcastChallenge frame may
\* carry: of u1, open or for u2 or u3, or none
Payloads ==
  {NewChallenge("u1", i, o, 1) : i \in {NULL, "u2", "u3"}, o \in BOOLEAN} \cup {NoRow}

\* the server: every frame type with every payload, on any socket
Next ==
  \/ \E s \in Sockets : Connect(s)
  \/ \E s \in Sockets : Close(s)
  \/ \E s \in Sockets, h \in Handlers, u \in UserIds, o \in BOOLEAN :
       RecvSetOnline(s, h, u, o)
  \/ \E h \in Handlers : SetOnlineCont(h)
  \/ \E s \in Sockets, h \in Handlers, c \in ChallengeIds : RecvAcceptChallenge(s, h, c)
  \/ \E h \in Handlers : DbAcceptUpdate(h)
  \/ \E h \in Handlers : DbAcceptUpdateFails(h)
  \/ \E h \in Handlers : AcceptUsersCont(h)
  \/ \E s \in Sockets, h \in Handlers, c \in ChallengeIds, u \in UserIds :
       RecvJoinOpenChallenge(s, h, c, u)
  \/ \E h \in Handlers : DbJoinFind(h)
  \/ \E h \in Handlers : JoinCheckCont(h)
  \/ \E h \in Handlers : JoinUserCont(h)
  \/ \E h \in Handlers : DbJoinUpdateInvitee(h)
  \/ \E h \in Handlers : DbJoinUpdate(h)
  \/ \E h \in Handlers : JoinUsersCont(h)
  \/ \E s \in Sockets, h \in Handlers, c \in ChallengeIds, u \in UserIds :
       RecvStartChallenge(s, h, c, u)
  \/ \E h \in Handlers : DbStartFind(h)
  \/ \E h \in Handlers : StartCheckCont(h)
  \/ \E h \in Handlers : DbStartUpdate(h)
  \/ \E h \in Handlers : StartUsersCont(h)
  \/ \E s \in Sockets, h \in Handlers, c \in ChallengeIds, p \in UserIds, w \in UserIds :
       RecvSelectWinner(s, h, c, p, w)
  \/ \E h \in Handlers : DbSelectWinnerTx(h)
  \/ \E h \in Handlers : DbSelectWinnerTxFails(h)
  \/ \E h \in Handlers : SelectWinnerCont(h)
  \/ \E s \in Sockets, h \in Handlers : RecvGetWinnerSelections(s, h)
  \/ \E h \in Handlers : DbGetWinnerSelections(h)
  \/ \E h \in Handlers : DbGetWinnerSelectionsFails(h)
  \/ \E h \in Handlers : GetWinnerSelectionsCont(h)
  \/ \E s \in Sockets, h \in Handlers, c \in ChallengeIds : RecvClaimVictory(s, h, c)
  \/ \E h \in Handlers : DbClaimFind(h)
  \/ \E h \in Handlers : ClaimCheckCont(h)
  \/ \E h \in Handlers : DbClaimErrFind(h)
  \/ \E h \in Handlers : ClaimErrCont(h)
  \/ \E h \in Handlers : DbClaimTx(h)
  \/ \E h \in Handlers : DbClaimTxFails(h)
  \/ \E h \in Handlers : ClaimFailCont(h)
  \/ \E h \in Handlers : ClaimUsersCont(h)
  \/ \E s \in Sockets, h \in Handlers, c \in ChallengeIds \cup {NULL}, ch \in Payloads :
       RecvBroadcastChallenge(s, h, c, ch)
  \/ \E s \in Sockets, h \in Handlers, t \in UnknownTypes, ch \in Payloads :
       RecvUnknownType(s, h, t, ch)
  \/ \E s \in Sockets, h \in Handlers : RecvUnparsable(s, h)
  \/ \E s \in Sockets : Closing(s)
  \/ \E s \in Sockets : SendBreaks(s)
  \/ Advance
  \/ CleanupTick
  \/ DbLoadFind
  \/ DbLoadFails
  \/ LoadCont
  \/ Signal
  \/ DbDisconnect
  \/ ShutdownCont
  \/ Restart

Spec == Init /\ [][Next]_vars

\* The specifications below take the same steps as Spec for one group of frame
\* types each, with the payloads that matter to the group; those of the match
\* and of joining start after the two players have come online.

\* presence: connections, setOnline frames and closes
InitPresence == Started(Targeted12("PENDING"), EmptyMap)

NextPresence ==
  \/ \E s \in Sockets : Connect(s)
  \/ \E s \in Sockets : Close(s)
  \/ \E s \in Sockets, h \in Handlers, u \in {"u1", "u2", NoUser}, o \in BOOLEAN :
       RecvSetOnline(s, h, u, o)
  \/ \E h \in Handlers : SetOnlineCont(h)

SpecPresence == InitPresence /\ [][NextPresence]_vars

\* the match: accept, start, nominations and claims on the targeted challenge
\* of u1 and u2, found in any status up to IN_PROGRESS when the server started
InitPlay ==
  \/ \E st \in {"PENDING", "ACCEPTED", "IN_PROGRESS"} : StartedOnline(Targeted12(st), EmptyMap)
  \/ StartedOnline(Targeted12("IN_PROGRESS"), Agreed("u1"))

Players == {"u1", "u2"}

NextPlay ==
  \/ \E s \in Sockets : Close(s)
  \/ \E s \in Sockets, h \in Handlers : RecvAcceptChallenge(s, h, "c1")
  \/ \E h \in Handlers : DbAcceptUpdate(h)
  \/ \E h \in Handlers : AcceptUsersCont(h)
  \/ \E s \in Sockets, h \in Handlers, u \in Players : RecvStartChallenge(s, h, "c1", u)
  \/ \E h \in Handlers : DbStartFind(h)
  \/ \E h \in Handlers : StartCheckCont(h)
  \/ \E h \in Handlers : DbStartUpdate(h)
  \/ \E h \in Handlers : StartUsersCont(h)
  \/ \E s \in Sockets, h \in Handlers, p \in Players, w \in Players :
       RecvSelectWinner(s, h, "c1", p, w)
  \/ \E h \in Handlers : DbSelectWinnerTx(h)
  \/ \E h \in Handlers : DbSelectWinnerTxFails(h)
  \/ \E h \in Handlers : SelectWinnerCont(h)
  \/ \E s \in Sockets, h \in Handlers : RecvGetWinnerSelections(s, h)
  \/ \E h \in Handlers : DbGetWinnerSelections(h)
  \/ \E h \in Handlers : DbGetWinnerSelectionsFails(h)
  \/ \E h \in Handlers : GetWinnerSelectionsCont(h)
  \/ \E s \in Sockets, h \in Handlers : RecvClaimVictory(s, h, "c1")
  \/ \E h \in Handlers : DbClaimFind(h)
  \/ \E h \in Handlers : ClaimCheckCont(h)
  \/ \E h \in Handlers : DbClaimErrFind(h)
  \/ \E h \in Handlers : ClaimErrCont(h)
  \/ \E h \in Handlers : DbClaimTx(h)
  \/ \E h \in Handlers : DbClaimTxFails(h)
  \/ \E h \in Handlers : ClaimFailCont(h)
  \/ \E h \in Handlers : ClaimUsersCont(h)

SpecPlay == InitPlay /\ [][NextPlay]_vars

\* joining: an open challenge of u1 that u3 can (wager 1) or cannot (wager 2)
\* afford, or the targeted challenge of u1 and u2
InitJoin ==
  \/ \E k \in {1, 2} : StartedOnline(Open1(k), EmptyMap)
  \/ \E st \in {"PENDING", "IN_PROGRESS"} : StartedOnline(Targeted12(st), EmptyMap)

NextJoin ==
  \/ \E s \in Sockets : Close(s)
  \/ \E s \in Sockets, h \in Handlers, c \in ChallengeIds, u \in UserIds :
       RecvJoinOpenChallenge(s, h, c, u)
  \/ \E h \in Handlers : DbJoinFind(h)
  \/ \E h \in Handlers : JoinCheckCont(h)
  \/ \E h \in Handlers : JoinUserCont(h)
  \/ \E h \in Handlers : DbJoinUpdateInvitee(h)
  \/ \E h \in Handlers : DbJoinUpdate(h)
  \/ \E h \in Handlers : JoinUsersCont(h)
  \/ \E s \in Sockets, h \in Handlers, c \in ChallengeIds : RecvAcceptChallenge(s, h, c)
  \/ \E h \in Handlers : DbAcceptUpdate(h)
  \/ \E h \in Handlers : DbAcceptUpdateFails(h)
  \/ \E h \in Handlers : AcceptUsersCont(h)

SpecJoin == InitJoin /\ [][NextJoin]_vars

\* only the invitee u2 has come online, on s2; the creator has not connected
InviteeOnline(row) ==
  /\ challenge = [c \in ChallengeIds |-> IF c \in Challenges THEN row ELSE NoRow]
  /\ selections = NoSelections
  /\ userCoins = InitCoins
  /\ startChallengeMap = NoStarts
  /\ winnerSelections = loadWinnerSelectionsFromDB(challenge, selections)
  /\ onlineUsers = <<[userId |-> "u2", ws |-> "s2"]>>
  /\ readyState = [s \in Sockets |-> IF s = "s2" THEN "OPEN" ELSE "NEW"]
  /\ hs = [h \in Handlers |-> Idle]
  /\ clock = 0
  /\ out = {}
  /\ frame = NoFrame
  /\ startup = Serving /\ now = 0 /\ sendThrows = {} /\ janitor = NoRun

\* starting: the targeted challenge of u1 and u2 in any status up to
\* IN_PROGRESS, with both players online or with the creator still away
InitStart ==
  \/ \E st \in {"PENDING", "ACCEPTED", "IN_PROGRESS"} : StartedOnline(Targeted12(st), EmptyMap)
  \/ InviteeOnline(Targeted12("ACCEPTED"))

NextStart ==
  \/ \E s \in Sockets : Connect(s)
  \/ \E s \in Sockets : Close(s)
  \/ \E s \in Sockets, h \in Handlers : RecvSetOnline(s, h, "u1", TRUE)
  \/ \E h \in Handlers : SetOnlineCont(h)
  \/ \E s \in Sockets, h \in Handlers, c \in ChallengeIds, u \in Players :
       RecvStartChallenge(s, h, c, u)
  \/ \E h \in Handlers : DbStartFind(h)
  \/ \E h \in Handlers : StartCheckCont(h)
  \/ \E h \in Handlers : DbStartUpdate(h)
  \/ \E h \in Handlers : StartUsersCont(h)

SpecStart == InitStart /\ [][NextStart]_vars

\* the targeted challenge of u1 and u2 as a claimVictory before the server
\* started left it
Completed12 ==
  [Targeted12("COMPLETED") EXCEPT !.winnerId = "u1", !.acceptedAt = -2, !.completedAt = -1]

\* no handler is in flight
Quiet == \A h \in Handlers : Free(h)

\* nominations: selectWinner and getWinnerSelections frames on the targeted
\* challenge in any status, or on a challenge that does not exist, sent one
\* after the other: each frame arrives when the handler of the one before has
\* finished
InitSelect ==
  \E row \in {Targeted12("PENDING"), Targeted12("ACCEPTED"), Targeted12("IN_PROGRESS"),
              Completed12} : StartedOnline(row, EmptyMap)

NextSelect ==
  \/ \E s \in Sockets : Close(s)
  \/ \E s \in Sockets, h \in Handlers, c \in ChallengeIds, p \in Players, w \in Players :
       Quiet /\ RecvSelectWinner(s, h, c, p, w)
  \/ \E h \in Handlers : DbSelectWinnerTx(h)
  \/ \E h \in Handlers : DbSelectWinnerTxFails(h)
  \/ \E h \in Handlers : SelectWinnerCont(h)
  \/ \E s \in Sockets, h \in Handlers : Quiet /\ RecvGetWinnerSelections(s, h)
  \/ \E h \in Handlers : DbGetWinnerSelections(h)
  \/ \E h \in Handlers : DbGetWinnerSelectionsFails(h)
  \/ \E h \in Handlers : GetWinnerSelectionsCont(h)

SpecSelect == InitSelect /\ [][NextSelect]_vars

\* only the creator has nominated; the two players nominated themselves
OnlyCreator == [p \in UserIds |-> IF p = "u1" THEN "u1" ELSE NULL]
Disagree == [p \in UserIds |-> IF p \in Players THEN p ELSE NULL]

\* claiming: the challenge of u1 and u2 is IN_PROGRESS with no, one, two
\* differing or two equal nominations; selectWinner and claimVictory frames
\* are sent one after the other
InitClaim ==
  \E sel \in {EmptyMap, OnlyCreator, Disagree, Agreed("u1")} :
     StartedOnline(Targeted12("IN_PROGRESS"), sel)

NextClaim ==
  \/ \E s \in Sockets : Close(s)
  \/ \E s \in Sockets, h \in Handlers, p \in Players, w \in Players :
       Quiet /\ RecvSelectWinner(s, h, "c1", p, w)
  \/ \E h \in Handlers : DbSelectWinnerTx(h)
  \/ \E h \in Handlers : SelectWinnerCont(h)
  \/ \E s \in Sockets, h \in Handlers, c \in ChallengeIds :
       Quiet /\ RecvClaimVictory(s, h, c)
  \/ \E h \in Handlers : DbClaimFind(h)
  \/ \E h \in Handlers : ClaimCheckCont(h)
  \/ \E h \in Handlers : DbClaimErrFind(h)
  \/ \E h \in Handlers : ClaimErrCont(h)
  \/ \E h \in Handlers : DbClaimTx(h)
  \/ \E h \in Handlers : DbClaimTxFails(h)
  \/ \E h \in Handlers : ClaimFailCont(h)
  \/ \E h \in Handlers : ClaimUsersCont(h)

SpecClaim == InitClaim /\ [][NextClaim]_vars

\* the creator u1 is online on s1, the invitee is away and u3, who has no part
\* in the challenge, is online on s2
SpectatorOnline ==
  /\ onlineUsers = <<[userId |-> "u1", ws |-> "s1"], [userId |-> "u3", ws |-> "s2"]>>
  /\ readyState = [s \in Sockets |-> "OPEN"]
  /\ hs = [h \in Handlers |-> Idle]

StartedWatched(row, sel) ==
  /\ challenge = [c \in ChallengeIds |-> IF c \in Challenges THEN row ELSE NoRow]
  /\ selections = [c \in ChallengeIds |-> IF c \in Challenges THEN sel ELSE EmptyMap]
  /\ userCoins = InitCoins
  /\ startChallengeMap = NoStarts
  /\ winnerSelections = loadWinnerSelectionsFromDB(challenge, selections)
  /\ SpectatorOnline
  /\ clock = 0
  /\ out = {}
  /\ frame = NoFrame
  /\ startup = Serving /\ now = 0 /\ sendThrows = {} /\ janitor = NoRun

\* the frames of a match, from joining to claiming, sent one after the other,
\* with u1 and u2 online or with u2 away and a third user online
InitMatch ==
  \E st \in {<<Open1(1), EmptyMap>>,
             <<Targeted12("PENDING"), EmptyMap>>, <<Targeted12("ACCEPTED"), EmptyMap>>,
             <<Targeted12("IN_PROGRESS"), Disagree>>,
             <<Targeted12("IN_PROGRESS"), Agreed("u1")>>} :
     StartedOnline(st[1], st[2]) \/ StartedWatched(st[1], st[2])

NextMatch ==
  \/ \E s \in Sockets : Close(s)
  \/ \E s \in Sockets, h \in Handlers : Quiet /\ RecvAcceptChallenge(s, h, "c1")
  \/ \E h \in Handlers : DbAcceptUpdate(h)
  \/ \E h \in Handlers : AcceptUsersCont(h)
  \/ \E s \in Sockets, h \in Handlers, u \in {"u2", "u3"} :
       Quiet /\ RecvJoinOpenChallenge(s, h, "c1", u)
  \/ \E h \in Handlers : DbJoinFind(h)
  \/ \E h \in Handlers : JoinCheckCont(h)
  \/ \E h \in Handlers : JoinUserCont(h)
  \/ \E h \in Handlers : DbJoinUpdateInvitee(h)
  \/ \E h \in Handlers : DbJoinUpdate(h)
  \/ \E h \in Handlers : JoinUsersCont(h)
  \/ \E s \in Sockets, h \in Handlers : Quiet /\ RecvStartChallenge(s, h, "c1", "u2")
  \/ \E h \in Handlers : DbStartFind(h)
  \/ \E h \in Handlers : StartCheckCont(h)
  \/ \E h \in Handlers : DbStartUpdate(h)
  \/ \E h \in Handlers : StartUsersCont(h)
  \/ \E s \in Sockets, h \in Handlers, p \in Players, w \in Players :
       Quiet /\ RecvSelectWinner(s, h, "c1", p, w)
  \/ \E h \in Handlers : DbSelectWinnerTx(h)
  \/ \E h \in Handlers : SelectWinnerCont(h)
  \/ \E s \in Sockets, h \in Handlers : Quiet /\ RecvClaimVictory(s, h, "c1")
  \/ \E h \in Handlers : DbClaimFind(h)
  \/ \E h \in Handlers : ClaimCheckCont(h)
  \/ \E h \in Handlers : DbClaimErrFind(h)
  \/ \E h \in Handlers : ClaimErrCont(h)
  \/ \E h \in Handlers : DbClaimTx(h)
  \/ \E h \in Handlers : ClaimUsersCont(h)

SpecMatch == InitMatch /\ [][NextMatch]_vars

\* announcing: createChallenge and broadcastChallenge frames, while users
\* come online and sockets close
NextCreate ==
  \/ \E s \in Sockets : Connect(s)
  \/ \E s \in Sockets : Close(s)
  \/ \E s \in Sockets, h \in Handlers, u \in {"u1", "u2", "u3"} : RecvSetOnline(s, h, u, TRUE)
  \/ \E h \in Handlers : SetOnlineCont(h)
  \/ \E s \in Sockets, h \in Handlers, c \in {NoChallenge, NULL}, ch \in Payloads :
       RecvBroadcastChallenge(s, h, c, ch)
  \/ \E s \in Sockets, h \in Handlers, t \in UnknownTypes, ch \in Payloads :
       RecvUnknownType(s, h, t, ch)

SpecCreate == InitPresence /\ [][NextCreate]_vars

\* protocol errors: frames that are not JSON, frames of an unknown type, and
\* selectWinner and startChallenge frames with and without their fields, on
\* the accepted challenge of u1 and u2
InitProtocol == Started(Targeted12("ACCEPTED"), EmptyMap)

NextProtocol ==
  \/ \E s \in Sockets : Connect(s)
  \/ \E s \in Sockets : Close(s)
  \/ \E s \in Sockets, h \in Handlers, u \in {"u1", "u2"} : RecvSetOnline(s, h, u, TRUE)
  \/ \E h \in Handlers : SetOnlineCont(h)
  \/ \E s \in Sockets, h \in Handlers : RecvUnparsable(s, h)
  \/ \E s \in Sockets, h \in Handlers, t \in UnknownTypes : RecvUnknownType(s, h, t, NoRow)
  \/ \E s \in Sockets, h \in Handlers, c \in {"c1", NULL}, p \in {"u1", NULL},
        w \in {"u1", NULL} : RecvSelectWinner(s, h, c, p, w)
  \/ \E h \in Handlers : DbSelectWinnerTx(h)
  \/ \E h \in Handlers : SelectWinnerCont(h)
  \/ \E s \in Sockets, h \in Handlers, c \in {"c1", NULL}, u \in {"u2", NULL} :
       RecvStartChallenge(s, h, c, u)
  \/ \E h \in Handlers : DbStartFind(h)
  \/ \E h \in Handlers : StartCheckCont(h)
  \/ \E h \in Handlers : DbStartUpdate(h)
  \/ \E h \in Handlers : StartUsersCont(h)

SpecProtocol == InitProtocol /\ [][NextProtocol]_vars

\* broadcasting: both players are online on the PENDING challenge of u1 and
\* u2; sockets begin to close, close, or start to throw on send, while
\* setOnline, acceptChallenge and broadcastChallenge frames cause broadcasts
InitBroadcast == StartedOnline(Targeted12("PENDING"), EmptyMap)

NextBroadcast ==
  \/ \E s \in Sockets : Closing(s)
  \/ \E s \in Sockets : Close(s)
  \/ \E s \in Sockets : SendBreaks(s)
  \/ \E s \in Sockets, h \in Handlers, u \in Players : RecvSetOnline(s, h, u, TRUE)
  \/ \E h \in Handlers : SetOnlineCont(h)
  \/ \E s \in Sockets, h \in Handlers : RecvAcceptChallenge(s, h, "c1")
  \/ \E h \in Handlers : DbAcceptUpdate(h)
  \/ \E h \in Handlers : AcceptUsersCont(h)
  \/ \E s \in Sockets, h \in Handlers, ch \in {Open1(1), Targeted12("PENDING")} :
       RecvBroadcastChallenge(s, h, "c1", ch)

SpecBroadcast == InitBroadcast /\ [][NextBroadcast]_vars

\* starting: the process has just evaluated the module; the store answers or
\* rejects the load while sockets connect and send selectWinner frames, one
\* after the other
InitStartup == Init

NextStartup ==
  \/ DbLoadFind
  \/ DbLoadFails
  \/ LoadCont
  \/ \E s \in Sockets : Connect(s)
  \/ \E s \in Sockets : Close(s)
  \/ \E s \in Sockets, h \in Handlers, p \in Players :
       Quiet /\ RecvSelectWinner(s, h, "c1", p, "u1")
  \/ \E h \in Handlers : DbSelectWinnerTx(h)
  \/ \E h \in Handlers : SelectWinnerCont(h)

SpecStartup == InitStartup /\ [][NextStartup]_vars

\* a match in progress across restarts: the players nominate one frame after
\* the other and claim, the process is stopped and restarted at any point and
\* warms its cache from the store, which answers
InitRestart == StartedOnline(Targeted12("IN_PROGRESS"), EmptyMap)

NextRestart ==
  \/ \E s \in Sockets : Connect(s)
  \/ \E s \in Sockets, h \in Handlers, p \in Players :
       Quiet /\ RecvSelectWinner(s, h, "c1", p, "u1")
  \/ \E s \in Sockets, h \in Handlers : Quiet /\ RecvClaimVictory(s, h, "c1")
  \/ \E h \in Handlers :
       \/ DbSelectWinnerTx(h)
       \/ SelectWinnerCont(h)
       \/ DbClaimFind(h)
       \/ ClaimCheckCont(h)
       \/ DbClaimErrFind(h)
       \/ ClaimErrCont(h)
       \/ DbClaimTx(h)
       \/ ClaimUsersCont(h)
  \/ Restart
  \/ DbLoadFind
  \/ LoadCont

SpecRestart == InitRestart /\ [][NextRestart]_vars

\* a match in progress in which the players may nominate any user, one frame
\* after the other, and claim
InitNominate == StartedOnline(Targeted12("IN_PROGRESS"), EmptyMap)

NextNominate ==
  \/ \E s \in Sockets : Close(s)
  \/ \E s \in Sockets, h \in Handlers, p \in Players, w \in Users :
       Quiet /\ RecvSelectWinner(s, h, "c1", p, w)
  \/ \E s \in Sockets, h \in Handlers : Quiet /\ RecvClaimVictory(s, h, "c1")
  \/ \E h \in Handlers :
       \/ DbSelectWinnerTx(h)
       \/ SelectWinnerCont(h)
       \/ DbClaimFind(h)
       \/ ClaimCheckCont(h)
       \/ DbClaimErrFind(h)
       \/ ClaimErrCont(h)
       \/ DbClaimTx(h)
       \/ ClaimUsersCont(h)

SpecNominate == InitNominate /\ [][NextNominate]_vars

\* stopping: users come online, minutes pass and the cleanup interval fires;
\* a termination signal arrives at some point
NextShutdown ==
  \/ \E s \in Sockets : Connect(s)
  \/ \E s \in Sockets : Close(s)
  \/ \E s \in Sockets, h \in Handlers, u \in Players : RecvSetOnline(s, h, u, TRUE)
  \/ \E h \in Handlers : SetOnlineCont(h)
  \/ Advance
  \/ CleanupTick
  \/ Signal
  \/ DbDisconnect
  \/ ShutdownCont

SpecShutdown == InitPresence /\ [][NextShutdown]_vars

\* the janitor: minutes pass and the cleanup interval fires while the
\* StateManager is given start-handshake entries and claimVictory frames, one
\* after the other, complete the challenge of u1 and u2
InitJanitor == StartedOnline(Targeted12("IN_PROGRESS"), Agreed("u1"))

NextJanitor ==
  \/ Advance
  \/ CleanupTick
  \/ \E c \in ChallengeIds : InitializeChallengeState(c)
  \/ \E s \in Sockets, h \in Handlers : Quiet /\ RecvClaimVictory(s, h, "c1")
  \/ \E h \in Handlers : DbClaimFind(h)
  \/ \E h \in Handlers : ClaimCheckCont(h)
  \/ \E h \in Handlers : DbClaimErrFind(h)
  \/ \E h \in Handlers : ClaimErrCont(h)
  \/ \E h \in Handlers : DbClaimTx(h)
  \/ \E h \in Handlers : ClaimUsersCont(h)

SpecJanitor == InitJanitor /\ [][NextJanitor]_vars

\* completing: the challenge is IN_PROGRESS, both players nominated u1, and
\* claimVictory frames arrive, overlapping or not, while the store answers
\* every call
InitComplete == StartedOnline(Targeted12("IN_PROGRESS"), Agreed("u1"))

NextComplete ==
  \/ \E s \in Sockets : Close(s)
  \/ \E s \in Sockets, h \in Handlers : RecvClaimVictory(s, h, "c1")
  \/ \E h \in Handlers : DbClaimFind(h)
  \/ \E h \in Handlers : ClaimCheckCont(h)
  \/ \E h \in Handlers : DbClaimErrFind(h)
  \/ \E h \in Handlers : ClaimErrCont(h)
  \/ \E h \in Handlers : DbClaimTx(h)
  \/ \E h \in Handlers : ClaimUsersCont(h)

\* the store answers every call it was given and the event loop resumes every
\* handler whose await has settled
FairComplete ==
  \A h \in Handlers :
     /\ WF_vars(DbClaimFind(h)) /\ WF_vars(ClaimCheckCont(h))
     /\ WF_vars(DbClaimErrFind(h)) /\ WF_vars(ClaimErrCont(h))
     /\ WF_vars(DbClaimTx(h)) /\ WF_vars(ClaimUsersCont(h))

SpecComplete == InitComplete /\ [][NextComplete]_vars /\ FairComplete

(* ------------------------------ presence claims ------------------------ *)
OneBindingPerUser ==
  \A i, j \in 1..Len(onlineUsers) :
     onlineUsers[i].userId = onlineUsers[j].userId => i = j

\* the step in which handleSetOnline of handler h binds its socket
Binds(h) ==
  /\ hs[h].pc = "so_find" /\ hs'[h].pc = "idle"
  /\ hs[h].online /\ hs[h].uid \in Users

\* C6: the online registry never holds two bindings for one userId, and a
\* successful setOnline for a userId leaves that userId bound to the socket
\* the frame came from, whatever socket it was bound to before.
C6_OneSocketPerUser ==
  /\ []OneBindingPerUser
  /\ [][\A h \in Handlers : Binds(h) =>
          /\ getUserData(onlineUsers', hs[h].uid) = hs[h].ws
          /\ Len(onlineUsers') = Len(onlineUsers)
                + (IF isUserOnline(onlineUsers, hs[h].uid) THEN 0 ELSE 1)]_vars

\* a setOnline of a user bound to another socket is about to replace the binding
C6_Witness ==
  \E h \in Handlers :
     /\ hs[h].pc = "so_find" /\ hs[h].online /\ hs[h].uid \in Users
     /\ isUserOnline(onlineUsers, hs[h].uid)
     /\ getUserData(onlineUsers, hs[h].uid) # hs[h].ws

(* ------------------------------ match claims --------------------------- *)
\* the step in which the store commits the completing transaction of handler h
Completes(h) == hs[h].pc = "cv_tx" /\ hs'[h].pc = "cv_users"

\* both players of the row have a nomination in m and the two are equal
Agree(m, row) ==
  /\ row.inviteeId # NULL
  /\ m[row.creatorId] # NULL
  /\ m[row.creatorId] = m[row.inviteeId]

\* C1: whenever the completing write of a claimVictory commits, the creator's
\* and the invitee's nominations exist and are equal at that instant (in the
\* persisted rows or in the nomination cache) and the winnerId written is the
\* value they agree on.
C1_ConsensusAtCompletion ==
  [][\A h \in Handlers : Completes(h) =>
       LET c == hs[h].cid
           row == challenge[c] IN
         \/ Agree(selections[c], row)
              /\ challenge'[c].winnerId = selections[c][row.creatorId]
         \/ Agree(winnerSelections[c].m, row)
              /\ challenge'[c].winnerId = winnerSelections[c].m[row.creatorId]]_vars

\* the edges of the challenge lifecycle
LegalEdges ==
  {<<"PENDING", "ACCEPTED">>, <<"ACCEPTED", "IN_PROGRESS">>, <<"IN_PROGRESS", "COMPLETED">>}

\* C2: the stored status of a challenge changes only along PENDING -> ACCEPTED
\* -> IN_PROGRESS -> COMPLETED, one edge at a time, and never leaves COMPLETED.
C2_StatusMonotonic ==
  [][\A c \in Challenges :
       challenge'[c].status # challenge[c].status =>
         <<challenge[c].status, challenge'[c].status>> \in LegalEdges]_vars

\* C3: a claimVictory handler writes the challenge row (status, winnerId,
\* completedAt) only while the stored status is IN_PROGRESS.
C3_ClaimOnlyInProgress ==
  [][\A h \in Handlers :
       (hs[h].type = "claimVictory" /\ hs'[h] # hs[h]
          /\ challenge[hs[h].cid].status # "IN_PROGRESS")
        => challenge'[hs[h].cid] = challenge[hs[h].cid]]_vars

\* C4: an acceptChallenge handler writes the challenge row only while the
\* stored status is PENDING, and then sets ACCEPTED and acceptedAt; in any
\* other status it leaves the row as it is.
C4_AcceptOnlyPending ==
  [][\A h \in Handlers :
       (hs[h].type = "acceptChallenge" /\ hs'[h] # hs[h]) =>
          IF challenge[hs[h].cid].exists /\ challenge[hs[h].cid].status = "PENDING"
          THEN hs[h].pc = "ac_upd" =>
                 challenge'[hs[h].cid] = [challenge[hs[h].cid] EXCEPT
                    !.status = "ACCEPTED", !.acceptedAt = hs[h].at]
          ELSE challenge'[hs[h].cid] = challenge[hs[h].cid]]_vars

\* C5: WinnerSelection rows exist only for challenges whose status is
\* IN_PROGRESS; in particular a COMPLETED challenge has none.
C5_RowsOnlyInProgress ==
  \A c \in ChallengeIds, p \in UserIds :
     selections[c][p] # NULL => challenge[c].status = "IN_PROGRESS"

\* C7: every nomination in the cache has a persisted row with the same
\* winner, and when no handler is in flight the cached nominations of a
\* challenge are exactly its persisted rows.
C7_CacheMirrorsStore ==
  /\ \A c \in ChallengeIds, p \in UserIds :
        (winnerSelections[c].has /\ winnerSelections[c].m[p] # NULL)
          => selections[c][p] = winnerSelections[c].m[p]
  /\ (\A h \in Handlers : Free(h)) =>
        \A c \in ChallengeIds : winnerSelections[c].has =>
           winnerSelections[c].m = selections[c]

(* ------------------------------ join claims ---------------------------- *)
\* handler h ends by sending joinOpenChallengeFailed to its own socket only,
\* and the challenge rows stay as they are
JoinRejected(h) ==
  /\ hs'[h] = Idle
  /\ \E f \in out' : out' = {f} /\ f.type = "joinOpenChallengeFailed" /\ f.to = hs[h].ws
  /\ challenge' = challenge

\* C8: once a joiner has become the invitee of a challenge it stays the
\* invitee: no later join overwrites inviteeId, and every join handler of
\* another user ends with joinOpenChallengeFailed to that user's socket.
C8_FirstJoinerWins ==
  [][/\ \A c \in Challenges :
          challenge[c].inviteeId # NULL => challenge'[c].inviteeId = challenge[c].inviteeId
     /\ \A h \in Handlers :
          (hs[h].type = "joinOpenChallenge" /\ hs'[h] = Idle
             /\ challenge[hs[h].cid].exists
             /\ challenge[hs[h].cid].inviteeId # hs[h].uid)
           => JoinRejected(h)]_vars

\* C9: the write of a successful join by U leaves inviteeId = U, status
\* ACCEPTED, acceptedAt set and isOpen false, and the handler then sends
\* challengeAccepted to the open sockets of the creator and of U.
C9_JoinSuccess ==
  [][\A h \in Handlers :
       /\ (hs[h].pc = "jo_upd" /\ hs'[h].pc = "jo_users") =>
             /\ challenge'[hs[h].cid].inviteeId = hs[h].uid
             /\ challenge'[hs[h].cid].status = "ACCEPTED"
             /\ challenge'[hs[h].cid].acceptedAt # 0
             /\ challenge'[hs[h].cid].isOpen = FALSE
       /\ (hs[h].pc = "jo_users" /\ hs'[h] = Idle) =>
             {f.to : f \in {g \in out' : g.type = "challengeAccepted"}}
               = broadcastToChallengePlayers(onlineUsers, readyState,
                                             hs[h].upd.creatorId, hs[h].uid)]_vars

\* the challenge and the user that a join handler has read call for a rejection
MustReject(h) ==
  LET ch == hs[h].ch IN
    \/ ~ch.exists
    \/ ~ch.isOpen
    \/ ch.status # "PENDING"
    \/ ch.creatorId = hs[h].uid
    \/ ch.inviteeId \notin {NULL, hs[h].uid}
    \/ hs[h].uid \notin Users
    \/ userCoins[hs[h].uid] < ch.coins

\* C10: a join whose challenge is missing, not open or not PENDING, whose
\* joiner is the creator, whose challenge has another invitee, or whose user is
\* missing or too poor, is rejected: its handler sends joinOpenChallengeFailed
\* to the originating socket only and leaves the challenge row unchanged.
C10_JoinRejections ==
  [][\A h \in Handlers :
       (hs[h].type = "joinOpenChallenge" /\ hs[h].pc \in {"jo_check", "jo_user"}
          /\ hs'[h] # hs[h] /\ MustReject(h))
        => \/ JoinRejected(h)
           \/ hs[h].pc = "jo_check" /\ hs'[h].pc = "jo_user" /\ UNCHANGED <<challenge, out>>]_vars

\* C11: a joinOpenChallenge sent by the user who already is the invitee never
\* changes the challenge row, whatever its status: the update it issues leaves
\* status, acceptedAt and inviteeId as they were, and the handler ends by
\* sending challengeAccepted to the open sockets of the two participants.
C11_InviteeRejoinNoOp ==
  [][\A h \in Handlers :
       /\ (hs[h].pc = "jo_upd_inv" /\ hs'[h] # hs[h]) =>
             challenge'[hs[h].cid] = challenge[hs[h].cid]
       /\ (hs[h].pc = "jo_users" /\ hs[h].ch.inviteeId = hs[h].uid /\ hs'[h] = Idle) =>
             /\ \A f \in out' : f.type = "challengeAccepted"
             /\ {f.to : f \in out'}
                  = {s \in Sockets : readyState[s] = "OPEN" /\
                       \E i \in 1..Len(onlineUsers) :
                          /\ onlineUsers[i].ws = s
                          /\ onlineUsers[i].userId \in {hs[h].ch.creatorId, hs[h].uid}}]_vars

(* ------------------------------ start claims --------------------------- *)
\* the user has a binding in the online registry
Bound(u) == \E i \in 1..Len(onlineUsers) : onlineUsers[i].userId = u

\* the challenge a start handler has read meets every precondition
MayStart(h) ==
  /\ hs[h].ch.exists
  /\ hs[h].uid = hs[h].ch.inviteeId
  /\ Bound(hs[h].ch.creatorId) /\ Bound(hs[h].ch.inviteeId)
  /\ hs[h].ch.status = "ACCEPTED"

\* C12: a startChallenge handler goes on to its update exactly when the
\* challenge exists, the frame's userId is the invitee, creator and invitee
\* are both in the online registry and the status is ACCEPTED; otherwise it
\* sends failedToStartChallenge to the originating socket only and the row
\* stays as it is.  The update sets status IN_PROGRESS and nothing else, the
\* status becomes IN_PROGRESS only by that update, from ACCEPTED and for the
\* stored invitee; a start that meets the preconditions is never refused.
C12_StartGuards ==
  [][/\ \A h \in Handlers :
          /\ (hs[h].pc = "st_check" /\ hs'[h] # hs[h]) =>
                /\ challenge' = challenge
                /\ IF MayStart(h)
                   THEN hs'[h].pc = "st_upd" /\ out' = {}
                   ELSE /\ hs'[h] = Idle
                        /\ \E f \in out' : /\ out' = {f}
                                           /\ f.type = "failedToStartChallenge"
                                           /\ f.to = hs[h].ws
          /\ (hs[h].pc = "st_upd" /\ hs'[h] # hs[h]) =>
                challenge'[hs[h].cid] = [challenge[hs[h].cid] EXCEPT !.status = "IN_PROGRESS"]
     /\ \A c \in Challenges :
          (challenge'[c].status = "IN_PROGRESS" /\ challenge[c].status # "IN_PROGRESS") =>
             /\ challenge[c].status = "ACCEPTED"
             /\ \E h \in Handlers : /\ hs[h].pc = "st_upd" /\ hs'[h].pc = "st_users"
                                    /\ hs[h].cid = c /\ hs[h].uid = challenge[c].inviteeId]_vars

\* the invitee's start has gone through after the creator came online behind
\* the invitee, three frames into the run (a refused start, the creator's
\* setOnline, the retry)
C12_Witness ==
  /\ onlineUsers = <<[userId |-> "u2", ws |-> "s2"], [userId |-> "u1", ws |-> "s1"]>>
  /\ clock = 3
  /\ \E h \in Handlers : hs[h].pc = "st_users" /\ hs[h].upd.status = "IN_PROGRESS"
  /\ challenge["c1"].status = "IN_PROGRESS"

(* ------------------------------ nomination claims ---------------------- *)
\* C13: no step of a selectWinner handler, from the receipt of the frame to
\* its last broadcast, changes a Challenge row (status, inviteeId, winnerId,
\* completedAt and the rest), whatever the status of the challenge; the User
\* rows and the online registry stay as they are too.
C13_SelectKeepsChallenge ==
  [][(\/ frame'.type = "selectWinner"
      \/ \E h \in Handlers : hs[h].type = "selectWinner" /\ hs'[h] # hs[h])
     => /\ challenge' = challenge
        /\ userCoins' = userCoins
        /\ onlineUsers' = onlineUsers]_vars

\* a nomination has been written for a challenge that is already COMPLETED
C13_Witness ==
  \E h \in Handlers :
     /\ hs[h].type = "selectWinner" /\ hs[h].pc = "sw_cont" /\ hs[h].ok
     /\ challenge[hs[h].cid].status = "COMPLETED"
     /\ selections[hs[h].cid][hs[h].uid] = hs[h].wid

\* With the frames handled one after the other, the nomination cache holds w
\* at (c, p) from the moment a selectWinner(c, p, w) has completed successfully
\* (its challengeUpdate broadcast) until another one for (c, p) completes.
\* C14: the allWinnerSelections reply of a getWinnerSelections that follows
\* carries that w at selections[c][p], for every challenge c and player p.
C14_SelectThenGet ==
  [][\A h \in Handlers :
       (hs[h].pc = "gw_cont" /\ hs'[h] = Idle) =>
          \E f \in out' :
             /\ f.type = "allWinnerSelections" /\ f.to = hs[h].ws
             /\ \A c \in ChallengeIds, p \in UserIds :
                  (winnerSelections[c].has /\ winnerSelections[c].m[p] # NULL)
                    => f.all[c][p] = winnerSelections[c].m[p]]_vars

\* handler h is a selectWinner that ends with its challengeUpdate broadcast
SelectSucceeds(h) ==
  /\ hs[h].pc = "sw_cont" /\ hs'[h] = Idle
  /\ hs[h].ok /\ hs[h].ch.exists

\* C15: a selectWinner(c, p, w) that follows another one for the same (c, p)
\* leaves the rows and the cache as it would have left them alone: its
\* transaction sets the one row of (c, p) to w and touches no other row, its
\* continuation sets the cached nomination of (c, p) to w and touches no other
\* entry, and when it has completed both hold w, whatever (c, p) held before.
C15_LastSelectionWins ==
  [][\A h \in Handlers :
       /\ (hs[h].pc = "sw_tx" /\ hs'[h].pc = "sw_cont" /\ hs'[h].ok) =>
             \A c \in ChallengeIds, p \in UserIds :
                selections'[c][p] = IF c = hs[h].cid /\ p = hs[h].uid THEN hs[h].wid
                                    ELSE selections[c][p]
       /\ SelectSucceeds(h) =>
             /\ selections'[hs[h].cid][hs[h].uid] = hs[h].wid
             /\ winnerSelections'[hs[h].cid].has
             /\ \A c \in ChallengeIds, p \in UserIds :
                   winnerSelections'[c].m[p] =
                      IF c = hs[h].cid /\ p = hs[h].uid THEN hs[h].wid
                      ELSE winnerSelections[c].m[p]
       /\ (hs[h].type = "selectWinner" /\ hs'[h] = Idle /\ ~SelectSucceeds(h)) =>
             /\ selections' = selections
             /\ winnerSelections' = winnerSelections]_vars

\* a second selectWinner of one player is about to replace the other winner
\* that the first one left in the cache
C15_Witness ==
  \E h \in Handlers :
     /\ hs[h].pc = "sw_cont" /\ hs[h].ok /\ hs[h].ch.exists
     /\ winnerSelections[hs[h].cid].has
     /\ winnerSelections[hs[h].cid].m[hs[h].uid] \notin {NULL, hs[h].wid}
     /\ selections[hs[h].cid][hs[h].uid] = hs[h].wid

(* ------------------------------ claim claims --------------------------- *)
\* the open sockets bound to the creator or the invitee of the row
PlayerSockets(row) ==
  {s \in Sockets : /\ readyState[s] = "OPEN"
                   /\ \E i \in 1..Len(onlineUsers) :
                         /\ onlineUsers[i].ws = s
                         /\ onlineUsers[i].userId \in {row.creatorId, row.inviteeId} \ {NULL}}

\* the cache has no nomination of the creator or none of the invitee of c
NominationMissing(c) ==
  \/ ~winnerSelections[c].has
  \/ winnerSelections[c].m[challenge[c].creatorId] = NULL
  \/ challenge[c].inviteeId = NULL
  \/ winnerSelections[c].m[challenge[c].inviteeId] = NULL

MissingMsgs == {"No winner selections found", "Both players must select a winner"}

\* C16: a claimVictory for an existing challenge whose creator or invitee has
\* no nomination (or that has no nominations at all) takes the error path,
\* which changes neither the Challenge row nor the WinnerSelection rows nor
\* the cache and ends by sending claimVictoryFailed to exactly the open
\* sockets of the two participants.
C16_ClaimWithoutNominations ==
  [][\A h \in Handlers :
       /\ (Free(h) /\ hs'[h].type = "claimVictory" /\ challenge[hs'[h].cid].exists
             /\ ~winnerSelections[hs'[h].cid].has) =>
             hs'[h].pc = "cv_err_find" /\ hs'[h].msg \in MissingMsgs
       /\ (hs[h].pc = "cv_check" /\ hs'[h] # hs[h] /\ hs[h].ch.exists
             /\ NominationMissing(hs[h].cid)) =>
             hs'[h].pc = "cv_err_find" /\ hs'[h].msg \in MissingMsgs
       /\ (hs[h].type = "claimVictory" /\ hs[h].msg \in MissingMsgs /\ hs'[h] # hs[h]) =>
             /\ UNCHANGED <<challenge, selections, winnerSelections>>
             /\ hs[h].pc = "cv_err_find" => hs'[h].pc = "cv_err_cont" /\ out' = {}
             /\ (hs[h].pc = "cv_err_cont" /\ challenge[hs[h].cid].exists) =>
                   /\ hs'[h] = Idle
                   /\ \A f \in out' : f.type = "claimVictoryFailed" /\ f.msg \in MissingMsgs
                   /\ {f.to : f \in out'} = PlayerSockets(challenge[hs[h].cid])]_vars

\* a claim that found only one of the two nominations is about to report it
\* to the two players, both online
C16_Witness ==
  \E h \in Handlers :
     /\ hs[h].pc = "cv_err_cont" /\ hs[h].msg = "Both players must select a winner"
     /\ hs[h].upd.exists
     /\ Cardinality(PlayerSockets(hs[h].upd)) = 2

\* the cached nominations of the creator and the invitee of c both exist and differ
NominationsDiffer(c) ==
  /\ ~NominationMissing(c)
  /\ winnerSelections[c].m[challenge[c].creatorId]
       # winnerSelections[c].m[challenge[c].inviteeId]

DisagreeMsg == "Players disagree on the winner"

\* C17: a claimVictory that finds two differing nominations takes the error
\* path: it changes neither the Challenge row (an IN_PROGRESS challenge stays
\* IN_PROGRESS) nor the rows nor the cache, and sends claimVictoryFailed to the open
\* sockets of the two participants.  The nominations being kept, a claim made
\* after a reselection has brought them to agree goes on to the completing
\* write, which sets COMPLETED and the winner the two nominations name.
C17_DisagreementKeepsMatchOpen ==
  [][\A h \in Handlers :
       /\ (hs[h].pc = "cv_check" /\ hs'[h] # hs[h] /\ hs[h].ch.exists) =>
             IF NominationsDiffer(hs[h].cid)
             THEN hs'[h].pc = "cv_err_find" /\ hs'[h].msg = DisagreeMsg
             ELSE IF NominationMissing(hs[h].cid)
             THEN hs'[h].pc = "cv_err_find" /\ hs'[h].msg # DisagreeMsg
             ELSE hs'[h].pc = "cv_tx"
       /\ (hs[h].type = "claimVictory" /\ hs[h].msg = DisagreeMsg /\ hs'[h] # hs[h]) =>
             /\ UNCHANGED <<challenge, selections, winnerSelections>>
             /\ hs[h].pc = "cv_err_cont" =>
                   /\ hs'[h] = Idle
                   /\ \A f \in out' : f.type = "claimVictoryFailed" /\ f.msg = DisagreeMsg
                   /\ {f.to : f \in out'} = PlayerSockets(challenge[hs[h].cid])
       /\ Completes(h) =>
             /\ Agree(winnerSelections[hs[h].cid].m, challenge[hs[h].cid])
             /\ challenge'[hs[h].cid].status = "COMPLETED"
             /\ challenge'[hs[h].cid].winnerId
                  = winnerSelections[hs[h].cid].m[challenge[hs[h].cid].creatorId]]_vars

\* a claim that found the two players disagreeing is about to tell both
C17_Witness ==
  \E h \in Handlers :
     /\ hs[h].pc = "cv_err_cont" /\ hs[h].msg = DisagreeMsg
     /\ NominationsDiffer(hs[h].cid)
     /\ Cardinality(PlayerSockets(hs[h].upd)) = 2

\* a claimVictory for c has been received while c is IN_PROGRESS and the
\* creator and the invitee both nominate w
ClaimReceived(c, w) ==
  /\ challenge[c].status = "IN_PROGRESS"
  /\ winnerSelections[c].has
  /\ Agree(winnerSelections[c].m, challenge[c])
  /\ winnerSelections[c].m[challenge[c].creatorId] = w
  /\ \E h \in Handlers : hs[h].type = "claimVictory" /\ hs[h].pc = "cv_find" /\ hs[h].cid = c

\* c is COMPLETED with winner w, has no rows and no cache entry, and the step
\* that led here sent challengeCompleted naming w to the open sockets of the
\* two participants and to nobody else
Announced(c, w) ==
  /\ challenge[c].status = "COMPLETED" /\ challenge[c].winnerId = w
  /\ selections[c] = EmptyMap
  /\ ~winnerSelections[c].has
  /\ \A f \in out : f.type = "challengeCompleted" /\ f.cid = c /\ f.msg = w
  /\ {f.to : f \in out} = PlayerSockets(challenge[c])

\* C18: if a claimVictory is received for an IN_PROGRESS challenge whose two
\* nominations are equal, and the store answers every call, then eventually
\* the challenge is COMPLETED with the agreed winner, its rows are gone, its
\* cache entry is dropped and challengeCompleted has gone to the online
\* participants; the rows are deleted by the very step that writes COMPLETED.
C18_ClaimCompletes ==
  /\ \A c \in Challenges, w \in Players : ClaimReceived(c, w) ~> Announced(c, w)
  /\ [][\A h \in Handlers : Completes(h) =>
          /\ challenge'[hs[h].cid].status = "COMPLETED"
          /\ challenge'[hs[h].cid].completedAt # 0
          /\ selections'[hs[h].cid] = EmptyMap]_vars

\* the completion has just been announced to the two players, both online
C18_Witness ==
  /\ Announced("c1", "u1")
  /\ Cardinality({f.to : f \in out}) = 2

(* ------------------------------ creation claims ------------------------ *)
\* C19: an inbound createChallenge frame makes the server persist a new
\* challenge with status PENDING (inviteeId null when isOpen, the given
\* invitee otherwise) and announce it once it is persisted: the step that
\* receives the frame writes that row, or leaves a handler in flight to write
\* it and send challengeCreated or openChallengeCreated.
C19_CreatePersistsThenAnnounces ==
  [][frame'.type = "createChallenge" =>
       \/ \E h \in Handlers : Free(h) /\ hs'[h].type = "createChallenge"
       \/ \E c \in ChallengeIds :
            /\ ~challenge[c].exists /\ challenge'[c].exists
            /\ challenge'[c].status = "PENDING"
            /\ challenge'[c].creatorId = frame'.ch.creatorId
            /\ challenge'[c].isOpen = frame'.ch.isOpen
            /\ challenge'[c].inviteeId
                 = IF frame'.ch.isOpen THEN NULL ELSE frame'.ch.inviteeId]_vars

(* ------------------------------ fan-out claims ------------------------- *)
\* the frames that are addressed to the two players of a challenge
IsTargeted(f) ==
  \/ f.type \in {"challengeAccepted", "challengeStartedBy", "challengeUpdate",
                 "challengeCompleted"}
  \/ f.type = "claimVictoryFailed" /\ f.msg \in MissingMsgs \cup {DisagreeMsg}

C21_UnknownTypeIgnored ==
  [][frame'.type \in UnknownTypes =>
       /\ out' = {}
       /\ UNCHANGED <<store, caches, readyState, hs>>]_vars

\* a frame of an unknown type has arrived while a user was online
C21_Witness ==
  /\ frame.type \in UnknownTypes
  /\ Len(onlineUsers) > 0
  /\ readyState[frame.ws] = "OPEN"

\* handler h returns in this step
Ends(h) == ~Free(h) /\ hs'[h] = Idle

\* handler h returns having done what its frame asked for
Succeeds(h) ==
  \/ hs[h].pc \in {"ac_users", "jo_users", "st_users", "cv_users", "gw_cont"}
  \/ hs[h].pc = "sw_cont" /\ hs[h].ok /\ hs[h].ch.exists
  \/ hs[h].pc = "so_find" /\ hs[h].uid \in Users

\* C22: whenever a handler ends because a call threw or a precondition failed,
\* and the originating socket is still open, the step sends a frame to that
\* socket, closes no socket and leaves the online registry as it was.
C22_FailureAnswered ==
  [][\A h \in Handlers :
       (Ends(h) /\ ~Succeeds(h) /\ readyState[hs[h].ws] = "OPEN")
        => /\ \E f \in out' : f.to = hs[h].ws
           /\ readyState' = readyState
           /\ onlineUsers' = onlineUsers]_vars

\* the step receives a frame of a type whose handler needs fields, and the
\* handler returns at once because one of them is missing
LacksField ==
  /\ frame'.type \in {"setOnline", "selectWinner", "acceptChallenge",
                      "joinOpenChallenge", "startChallenge", "claimVictory"}
  /\ hs' = hs

\* C23: a frame that does not parse as JSON is dropped with no frame sent
\* back, and a frame that parses but lacks a required field (selectWinner
\* without winnerId, startChallenge without userId) is answered with exactly
\* one error frame to the originating socket.
C23_ProtocolErrors ==
  [][/\ frame'.type = Unparsable => out' = {}
     /\ LacksField =>
          \E f \in out' : out' = {f} /\ f.type = "error" /\ f.to = frame'.ws]_vars

(* ------------------------------ store failure claims ------------------- *)
SaveFailedMsg == "Failed to save winner selection"

\* C24: when the store rejects the write of a selectWinner, the failing
\* transaction leaves no row, and the handler, resuming, leaves the nomination
\* cache and the store as they were, broadcasts no challengeUpdate and sends
\* exactly one error frame, to the originating socket.
C24_FailedSelectKeepsCache ==
  [][\A h \in Handlers :
       /\ (hs[h].pc = "sw_tx" /\ hs'[h].pc = "sw_cont" /\ ~hs'[h].ok)
             => UNCHANGED <<store, caches>> /\ out' = {}
       /\ (hs[h].pc = "sw_cont" /\ ~hs[h].ok /\ Ends(h))
             => /\ UNCHANGED <<store, caches>>
                /\ \E f \in out' :
                      /\ out' = {f}
                      /\ f.type = "error" /\ f.msg = SaveFailedMsg
                      /\ f.to = hs[h].ws]_vars

\* the error frame of a failed selectWinner has gone out while both players
\* were online and the challenge had a nomination in the cache
C24_Witness ==
  /\ \E f \in out : f.type = "error" /\ f.msg = SaveFailedMsg
  /\ \E c \in Challenges : winnerSelections[c].has
  /\ Len(onlineUsers) = 2

(* ------------------------------ broadcast claims ----------------------- *)
\* the sockets that are OPEN and bound in the registry reg
OpenBound(reg) ==
  {s \in Sockets : readyState[s] = "OPEN" /\ \E i \in 1..Len(reg) : reg[i].ws = s}

\* the frames of the step all have the given type and were handed to exactly
\* the given sockets
SentTo(type, socks) ==
  /\ \A f \in out' : f.type = type
  /\ {f.to : f \in out'} = socks

\* C25: in every broadcast each recipient whose socket is OPEN is handed the
\* frame, whether or not the socket of another recipient is closing, closed or
\* throws on send; the handler ends without an error frame, and the store and
\* the registry keep what the handler wrote before it broadcast.
C25_BadRecipientBlocksNobody ==
  [][/\ \A h \in Handlers :
          (hs[h].pc = "ac_users" /\ Ends(h))
           => /\ SentTo("challengeAccepted", PlayerSockets(hs[h].upd))
              /\ UNCHANGED <<store, caches>>
     /\ \A h \in Handlers :
          (hs[h].pc = "so_find" /\ hs[h].online /\ hs[h].uid \in Users /\ Ends(h))
           => /\ SentTo("onlineUsers", OpenBound(onlineUsers'))
              /\ getUserData(onlineUsers', hs[h].uid) = hs[h].ws
     /\ (frame'.type = "broadcastChallenge" /\ frame'.ch.exists /\ frame'.ch.isOpen)
           => SentTo("openChallengeCreated", OpenBound(onlineUsers)) /\ hs' = hs
     /\ (frame'.type = "broadcastChallenge" /\ frame'.ch.exists /\ ~frame'.ch.isOpen)
           => SentTo("challengeCreated", PlayerSockets(frame'.ch)) /\ hs' = hs]_vars

\* challengeAccepted has been handed to the invitee on s2 although send throws
\* on the creator's socket s1, which is still bound and OPEN
C25_Witness ==
  /\ \E f \in out : f.type = "challengeAccepted" /\ f.to = "s2"
  /\ "s1" \in sendThrows /\ readyState["s1"] = "OPEN"
  /\ getUserData(onlineUsers, "u1") = "s1"
  /\ challenge["c1"].status = "ACCEPTED"

(* ------------------------------ close claims --------------------------- *)
\* C26: once the close handler of a socket has run, no entry of the online
\* registry references that socket, whatever setOnline frames the socket sent
\* before it closed.
C26_ClosedSocketUnbound ==
  \A i \in 1..Len(onlineUsers) : readyState[onlineUsers[i].ws] # "CLOSED"

(* ------------------------------ binding claims ------------------------- *)
\* C27: a user becomes bound to a socket, or bound to another socket, only in
\* the step in which a setOnline handler for that user, with online = true and
\* a userId that has a User row, resumes on that socket; a setOnline handler
\* for a userId without a User row leaves the registry as it was and
\* broadcasts nothing.
C27_BindOnlyExistingUser ==
  [][/\ \A u \in UserIds :
          (getUserData(onlineUsers', u) # NULL
             /\ getUserData(onlineUsers', u) # getUserData(onlineUsers, u))
           => \E h \in Handlers :
                 /\ hs[h].type = "setOnline" /\ Ends(h)
                 /\ hs[h].uid = u /\ hs[h].online /\ u \in Users
                 /\ getUserData(onlineUsers', u) = hs[h].ws
     /\ \A h \in Handlers :
          (hs[h].type = "setOnline" /\ Ends(h) /\ hs[h].uid \notin Users)
           => onlineUsers' = onlineUsers /\ out' = {}]_vars

\* a setOnline with online = true for the id u0, which has no User row, is
\* about to resume on an open socket while another user is online
C27_Witness ==
  \E h \in Handlers :
     /\ hs[h].pc = "so_find" /\ hs[h].uid = NoUser /\ hs[h].online
     /\ readyState[hs[h].ws] = "OPEN"
     /\ Len(onlineUsers) > 0

(* ------------------------------ janitor claims ------------------------- *)
\* the step is a run of the cleanup interval
Ticks == janitor' # janitor

\* C28: a run of the cleanup interval removes every start-handshake entry whose
\* age exceeds five minutes, leaves every other entry as it is, and changes
\* neither the nomination cache nor the online registry; the nominations of a
\* challenge leave the cache only in the step in which a claimVictory handler
\* of that challenge completes it.
C28_JanitorSweepsStartsOnly ==
  [][/\ Ticks =>
          /\ \A c \in ChallengeIds :
                IF startChallengeMap[c].has
                   /\ now - startChallengeMap[c].timestamp > STALE_CHALLENGE_TIMEOUT
                THEN ~startChallengeMap'[c].has
                ELSE startChallengeMap'[c] = startChallengeMap[c]
          /\ UNCHANGED <<winnerSelections, onlineUsers, store>>
     /\ \A c \in ChallengeIds :
          (winnerSelections[c].has /\ winnerSelections'[c] # winnerSelections[c])
           => \E h \in Handlers :
                 hs[h].pc = "cv_users" /\ hs[h].cid = c /\ Ends(h)]_vars

\* the cleanup interval has just removed one entry and kept a younger one,
\* while the nominations of the challenge were cached
C28_Witness ==
  /\ janitor.at = now /\ janitor.cleaned = 1
  /\ \E c \in ChallengeIds :
        startChallengeMap[c].has /\ startChallengeMap[c].timestamp < now
  /\ winnerSelections["c1"].has

(* ------------------------------ startup claims ------------------------- *)
\* loadWinnerSelectionsFromDB has not completed
LoadPending == startup.pc \in {"find", "cont"}

\* C29: until loadWinnerSelectionsFromDB has completed and the signal handlers
\* are installed, the listener is not open: no socket has been accepted, no
\* frame has been received and no handler is in flight.
C29_ListenAfterWarmUp ==
  (LoadPending \/ ~startup.signals) =>
     /\ \A s \in Sockets : readyState[s] = "NEW"
     /\ frame = NoFrame
     /\ \A h \in Handlers : Free(h)

ShutdownOrder == <<"stopAccepting", "stopTicker", "closeSockets", "disconnect">>

\* shutdown has begun
ShuttingDown == startup.steps # <<>>

InProgressPart(cache, chs) ==
  [c \in ChallengeIds |->
     IF chs[c].exists /\ chs[c].status = "IN_PROGRESS" THEN cache[c] ELSE NoMap]

\* the process is stopped and started again in this step
Restarts == startup' = Loading /\ winnerSelections' = [c \in ChallengeIds |-> NoMap]
              /\ hs' = [h \in Handlers |-> Idle] /\ startup.pc # "find"

\* both players' stored nominations of the IN_PROGRESS challenge c agree
StoredAgree(c) ==
  /\ challenge[c].exists /\ challenge[c].status = "IN_PROGRESS"
  /\ challenge[c].inviteeId # NULL
  /\ selections[c][challenge[c].creatorId] # NULL
  /\ selections[c][challenge[c].creatorId] = selections[c][challenge[c].inviteeId]

\* C32: when the process is stopped at any point and restarted on the intact
\* store, the cache that the load warms from the store equals the cache held
\* before the stop, restricted to IN_PROGRESS challenges; and a claimVictory
\* that arrives after a restart, with no other handler in flight, while both
\* stored nominations agree finds the nominations and goes on to complete
C32_RestartKeepsNominations ==
  [][/\ Restarts =>
          warmCache(winnerSelections', ActiveRows(challenge', selections'))
            = InProgressPart(winnerSelections, challenge)
     /\ \A h \in Handlers :
          (/\ frame'.type = "claimVictory" /\ Free(h) /\ ~Free(h)'
           /\ Quiet /\ StoredAgree(hs'[h].cid))
            => hs'[h].pc = "cv_find"]_vars

(* ------------------------------ C33 ------------------------------------ *)
\* the frame types that carry a challenge object
ChallengeFrames ==
  {"challengeCreated", "openChallengeCreated", "challengeAccepted",
   "challengeStartedBy", "challengeUpdate", "challengeCompleted"}

\* C33: every frame sent that carries a challenge object carries, as its
\* winnerSelections field, the nominations the cache holds for that challenge
\* at the moment of the broadcast
C33_FramesCarryNominations ==
  [][\A f \in out' :
       f.type \in ChallengeFrames
         => f.sel = enrichChallengeWithSelections(winnerSelections', f.cid)]_vars

(* ------------------------------ C34 ------------------------------------ *)
\* C34: a stored challenge has no invitee exactly when it is open and PENDING,
\* and a challenge that is ACCEPTED, IN_PROGRESS or COMPLETED has an invitee
\* and is not open
C34_OpenIffNoInvitee ==
  \A c \in Challenges :
    challenge[c].exists =>
      /\ (challenge[c].inviteeId = NULL)
           <=> (challenge[c].isOpen /\ challenge[c].status = "PENDING")
      /\ challenge[c].status \in {"ACCEPTED", "IN_PROGRESS", "COMPLETED"}
           => (challenge[c].inviteeId # NULL /\ ~challenge[c].isOpen)

(* ------------------------------ C35 ------------------------------------ *)
\* the handler g of a selectWinner frame from socket s has stored its row and
\* has yet to write the nomination to the cache
SelectStored(g, s, c) ==
  /\ hs[g].type = "selectWinner" /\ hs[g].pc = "sw_cont"
  /\ hs[g].ws = s /\ hs[g].cid = c
  /\ hs[g].ok /\ hs[g].ch.exists

\* C35: frames of one socket are processed in arrival order: a claimVictory
\* that arrives on a socket finds in the cache the nomination of every
\* selectWinner frame that the same socket sent before it
C35_SameSocketInOrder ==
  [][\A h \in Handlers, g \in Handlers :
       (/\ frame'.type = "claimVictory" /\ Free(h) /\ ~Free(h)'
        /\ SelectStored(g, frame'.ws, hs'[h].cid))
         => /\ getWinnerSelections(winnerSelections, hs[g].cid).has
            /\ getWinnerSelections(winnerSelections, hs[g].cid).m[hs[g].uid] = hs[g].wid]_vars

(* ------------------------------ C36 ------------------------------------ *)
\* the close event of socket s is handled in this step
Closes(s) == readyState[s] # "CLOSED" /\ readyState'[s] = "CLOSED"

\* C36: the close of a socket leaves every user who is bound to another socket
\* in the registry and bound to that socket; in particular a user whose
\* binding a setOnline from a new socket has replaced stays online, bound to
\* the new socket, when the abandoned socket closes, and the onlineUsers frames
\* of that step go to that socket too
C36_AbandonedSocketClose ==
  [][\A s \in Sockets :
       Closes(s) =>
         \A u \in UserIds :
           getUserData(onlineUsers, u) \notin {NULL, s}
             => /\ getUserData(onlineUsers', u) = getUserData(onlineUsers, u)
                /\ (out' # {} /\ readyState[getUserData(onlineUsers, u)] = "OPEN")
                     => \E f \in out' : f.to = getUserData(onlineUsers, u)]_vars

\* the abandoned socket s1 has closed, with no broadcast since it bound nobody,
\* after two setOnline frames; u1 is alone in the registry, bound to the open s2
C36_Witness ==
  /\ readyState["s1"] = "CLOSED" /\ readyState["s2"] = "OPEN"
  /\ onlineUsers = <<[userId |-> "u1", ws |-> "s2"]>>
  /\ clock = 2 /\ Quiet
  /\ out = {} /\ frame = NoFrame

(* ------------------------------ C37 ------------------------------------ *)
\* C37: for one challenge the completing transaction is executed at most once
\* and challengeCompleted is broadcast at most once, however two claimVictory
\* handlers interleave: the transaction is committed only for a challenge that
\* is not COMPLETED yet, and challengeCompleted is sent only by the step that
\* drops the nominations of the challenge, which are not there a second time
C37_CompletesOnce ==
  [][\A h \in Handlers :
       /\ Completes(h) => challenge[hs[h].cid].status # "COMPLETED"
       /\ (hs[h].pc = "cv_users" /\ hs'[h].pc = "idle"
             /\ \E f \in out' : f.type = "challengeCompleted")
            => winnerSelections[hs[h].cid].has]_vars

(* ------------------------------ C38 ------------------------------------ *)
\* C38: the winner recorded on a COMPLETED challenge is its creator or its
\* invitee
C38_WinnerIsParticipant ==
  \A c \in Challenges :
    (challenge[c].exists /\ challenge[c].status = "COMPLETED")
      => challenge[c].winnerId \in {challenge[c].creatorId, challenge[c].inviteeId}

(* ------------------------------ C39 ------------------------------------ *)
UpdateFailedMsg == "Failed to update challenge status."

\* C39: when the store rejects the completing transaction of a claimVictory,
\* neither that step nor the handler's last step changes the challenge row,
\* the WinnerSelection rows or any cache; no challengeCompleted is sent and the
\* one frame of the handler is claimVictoryFailed to the socket that claimed
C39_FailedClaimKeepsMatch ==
  [][\A h \in Handlers :
       /\ (hs[h].pc = "cv_tx" /\ hs'[h].pc = "cv_fail")
             => UNCHANGED <<store, caches>> /\ out' = {}
       /\ (hs[h].pc = "cv_fail" /\ Ends(h))
             => /\ UNCHANGED <<store, caches>>
                /\ \E f \in out' :
                      /\ out' = {f}
                      /\ f.type = "claimVictoryFailed" /\ f.msg = UpdateFailedMsg
                      /\ f.to = hs[h].ws]_vars

\* the failure frame of a claim has gone out: the challenge is still
\* IN_PROGRESS and both agreeing nominations are still stored and cached
C39_Witness ==
  /\ \E f \in out : f.type = "claimVictoryFailed" /\ f.msg = UpdateFailedMsg
  /\ challenge["c1"].status = "IN_PROGRESS" /\ challenge["c1"].winnerId = NULL
  /\ selections["c1"] = Agreed("u1")
  /\ winnerSelections["c1"] = [has |-> TRUE, m |-> Agreed("u1")]

(* ------------------------------ C40 ------------------------------------ *)
\* C40: a setOnline frame with online = false changes neither the registry nor
\* any cache and causes no onlineUsers broadcast, at its arrival or when its
\* handler resumes; and a user leaves the registry only in the step that
\* handles the close of the socket the user is bound to
C40_OfflineFrameIgnored ==
  [][/\ \A h \in Handlers :
          (\/ (Free(h) /\ hs'[h].type = "setOnline" /\ ~hs'[h].online)
           \/ (hs[h].type = "setOnline" /\ ~hs[h].online /\ Ends(h)))
            => UNCHANGED caches /\ out' = {}
     /\ \A u \in UserIds :
          (isUserOnline(onlineUsers, u) /\ ~isUserOnline(onlineUsers', u))
            => Closes(getUserData(onlineUsers, u))]_vars

\* a setOnline frame with online = false for u1 has arrived on the socket u1
\* is bound to and waits for its user lookup
C40_Witness ==
  \E h \in Handlers :
     /\ hs[h].type = "setOnline" /\ hs[h].pc = "so_find" /\ ~hs[h].online
     /\ hs[h].uid = "u1" /\ getUserData(onlineUsers, "u1") = hs[h].ws
     /\ frame = Inbound("setOnline", hs[h].ws, NoRow)

====
